---- MODULE Spec2Model ----
(***************************************************************************)
(* Orchestration kernel of the Ada assistant: the event bus                *)
(* (core/events.py), the module lifecycle (core/base.py and the audio and  *)
(* conversation modules built on it), the vision module, and the           *)
(* supervisor (core/assistant.py).                                         *)
(*                                                                         *)
(* The module holds these state machines over one set of variables:        *)
(*   SpecBus / SpecBusConc      the EventBus, called from one thread /     *)
(*                              from a publisher and a mutator thread      *)
(*   SpecBusReentrant           the EventBus with callbacks that subscribe *)
(*                              and unsubscribe during the dispatch        *)
(*   SpecModule                 one lifecycle module instance and the      *)
(*                              start()/stop() calls made on it            *)
(*   SpecConv                   the conversation module with its queue,    *)
(*                              its handlers and its processing thread     *)
(*   SpecAssistant(Fair)        Assistant.start() over its three modules   *)
(*   SpecAssistantRestart       the same, start() being called again on    *)
(*                              the instance once it has ended             *)
(*   SpecBusAnyType             the EventBus with events of known and of   *)
(*                              unknown types                              *)
(*   SpecStatus                 update_status and get_status of a module,  *)
(*                              one dict key at a time, under the lock     *)
(*   SpecConvFair / SpecConvRun the conversation module with a fairly      *)
(*                              scheduled processing thread / the same     *)
(*                              without any stop() call                    *)
(*   SpecSpeak                  AudioModule.speak() called from two        *)
(*                              threads                                    *)
(*   SpecBusRegistry            subscribe and unsubscribe while a          *)
(*                              publisher is held up inside publish        *)
(* Each specification moves its own variables and leaves the others at     *)
(* their initial values.                                                   *)
(***************************************************************************)
EXTENDS Integers, Sequences, FiniteSets, TLC

VARIABLES
    \* ---- EventBus (core/events.py) ----
    subscribers,   \* self.subscribers: dict type -> list of callbacks
    regs,          \* ghost: the registrations as the calls made them
    callResult,    \* outcome of the last subscribe/unsubscribe/clear call
    pubpc,         \* position of the thread inside publish()
    pubType,       \* event.type of the publish in progress
    pubIdx,        \* the list iterator's index (items already yielded)
    pubList,       \* the iterated list object once the dict dropped it
    pubDetached,   \* TRUE when the iterated list left the dict (clear())
    called,        \* callbacks invoked by the publish in progress
    atStart,       \* ghost: the list of pubType when the dispatch began
    \* ---- one lifecycle module (core/base.py and its subclasses) ----
    kind,          \* the class of the instance: base, conversation or audio
    running,       \* self.running
    initialized,   \* self._initialized (threading.Event) is set
    cleanup_done,  \* self._cleanup_done
    status,        \* self._status: [state, error]
    thread,        \* ConversationModule.processing_thread
    stack,         \* call stack of the thread calling start()/stop()
    exc,           \* the exception being propagated, "none" when none
    lastCall,      \* the last call made on the instance: start or stop
    result,        \* what that call returned, or the exception it raised
    cleanupCalls,  \* ghost: invocations of cleanup() so far
    startCalled,   \* ghost: start() has been called at least once
    stopCompleted, \* ghost: some stop() call has returned or raised
    \* ---- Assistant (core/assistant.py) over its three modules ----
    apc,           \* position of the thread inside Assistant.start()
    ai,            \* index of the for loop the thread is in
    arunning,      \* Assistant.running
    shutdown_event, \* Assistant._shutdown_event is set
    pending,       \* exception start() re-raises after its finally clause
    outcome,       \* how start() ended: returned, or the exception raised
    mRunning,      \* per module: is_running() (VisionModule: .running)
    mCleanupDone,  \* per lifecycle module: _cleanup_done
    vthread,       \* VisionModule.processing_thread
    startLog,      \* ghost: modules whose start() was called, in order
    stopLog,       \* ghost: modules whose stop() was called, in order
    stopRaised,    \* ghost: modules whose stop() raised during shutdown
    shutdownCalls, \* ghost: calls of shutdown()
    enteredLoop,   \* ghost: the health loop was entered
    failedAt,      \* ghost: the module whose start failed, "none" if none
    intrInShutdown, \* ghost: KeyboardInterrupt arrived inside shutdown()
    verified,      \* ghost: modules whose is_running() check passed at startup
    mError,        \* per lifecycle module: get_status()['error'] is non-empty
    errorLogged,   \* ghost: modules whose error a health check has logged
    \* ---- ConversationModule: its queue and its processing thread ----
    message_queue, \* self.message_queue: messages (by number) and sentinels
    conversation_history, \* self.conversation_history
    is_processing, \* self.is_processing
    wpc,           \* position of the processing thread in _processing_loop
    current,       \* the message the processing thread holds, 0 when none
    nextId,        \* ghost: the number the next enqueued message gets
    processedLog,  \* ghost: messages appended to the history, in order
    nFinished,     \* ghost: messages whose _process_message has returned
    clearedAt,     \* ghost: Len(processedLog) when cleanup() last cleared
    lastFailed,    \* ghost: the last message whose pipeline raised, 0 if none
    stopBegun,     \* ghost: stop() has been called on the module
    pendingAtStop, \* ghost: the messages queued when stop() was first called
    gotAfterStop,  \* ghost: the messages dequeued since
    handlerResult, \* ghost: how the last handle_* callback ended
    wellFormedSeen, \* ghost: events carrying their text the handlers received
    responded,     \* what generate_response gave for the message in progress
    outEvents,     \* the events _process_message published for that message
    \* ---- a thread calling wait_until_ready(timeout) on the module ----
    waitpc,        \* position of that thread: idle, waiting or returned
    waitResult,    \* what wait_until_ready returned
    waitSaw,       \* ghost: the last call on the module when it returned
    \* ---- self._status key by key, under self._lock ----
    lockHolder,    \* the thread that holds self._lock, "free" when none
    statusDict,    \* self._status: for each key, the update that wrote it
    upc,           \* per updating thread: its position in update_status
    updating,      \* per updating thread: the number of its update
    nUpdates,      \* update_status calls begun so far
    rpc,           \* position of the reading thread in get_status
    snapshot,      \* the dict get_status builds and returns
    snapshotChanged, \* ghost: the caller has written into the returned dict
    \* ---- EventBus, continued ----
    cleared,       \* ghost: clear_all_subscribers() ran, no subscribe since
    \* ---- ConversationModule on the bus ----
    handlersSubscribed, \* the module's two handlers are in the bus's lists
    \* ---- AudioModule.speak ----
    is_speaking,   \* AudioModule.is_speaking
    audio_queue,   \* AudioModule.audio_queue, a FIFO of texts
    spc,           \* per calling thread: its position in speak()
    stext,         \* per calling thread: the text it is about to hand over
    spoken,        \* ghost: the texts handed to tts_engine.speak, in order
    nSpeaks        \* speak() calls begun so far; the call number is the text

busVars == <<subscribers, regs, callResult, pubpc, pubType, pubIdx,
             pubList, pubDetached, called, atStart>>

modVars == <<kind, running, initialized, cleanup_done, status, thread, stack,
             exc, lastCall, result, cleanupCalls, startCalled, stopCompleted>>

asstVars == <<apc, ai, arunning, shutdown_event, pending, outcome, mRunning,
              mCleanupDone, vthread, startLog, stopLog, stopRaised,
              shutdownCalls, enteredLoop, failedAt, intrInShutdown,
              verified>>

convVars == <<message_queue, conversation_history, is_processing, wpc,
              current, nextId, processedLog, nFinished, clearedAt, lastFailed,
              stopBegun, pendingAtStop, gotAfterStop>>

hdlVars == <<handlerResult, wellFormedSeen>>

healthVars == <<mError, errorLogged>>

pipeVars == <<responded, outEvents>>

waitVars == <<waitpc, waitResult, waitSaw>>

statVars == <<lockHolder, statusDict, upc, updating, nUpdates, rpc, snapshot,
              snapshotChanged>>

clearVars == <<cleared>>

subVars == <<handlersSubscribed>>

speakVars == <<is_speaking, audio_queue, spc, stext, spoken, nSpeaks>>

vars == <<busVars, modVars, asstVars, convVars, hdlVars, healthVars, pipeVars,
          waitVars, statVars, clearVars, subVars, speakVars>>

\* what a step of one state machine leaves alone
notBus ==
    <<modVars, asstVars, convVars, hdlVars, healthVars, pipeVars, waitVars,
      statVars, subVars, speakVars>>
notMod ==
    <<busVars, asstVars, convVars, hdlVars, healthVars,
      pipeVars, waitVars, statVars, clearVars, speakVars>>
notAsst ==
    <<busVars, modVars, convVars, hdlVars, healthVars,
      pipeVars, waitVars, statVars, clearVars,
      subVars, speakVars>>
\* a supervisor step that touches a module's status or reads it
notHealth ==
    <<busVars, modVars, convVars, hdlVars, pipeVars,
      waitVars, statVars, clearVars,
      subVars, speakVars>>
\* the conversation module moves its lifecycle fields and its queue together
notConv ==
    <<busVars, asstVars, hdlVars, healthVars, pipeVars,
      waitVars, statVars, clearVars,
      subVars, speakVars>>
\* the processing thread inside _process_message also records its response
notPipe ==
    <<busVars, asstVars, hdlVars, healthVars, waitVars,
      statVars, clearVars,
      subVars, speakVars>>
\* the thread in wait_until_ready moves nothing of the module
notWait ==
    <<busVars, modVars, asstVars, convVars, hdlVars,
      healthVars, pipeVars, statVars, clearVars,
      subVars, speakVars>>
\* update_status and get_status at the grain of one dict key
notStat ==
    <<busVars, modVars, asstVars, convVars, hdlVars,
      healthVars, pipeVars, waitVars, clearVars,
      subVars, speakVars>>
\* a handle_* callback also records how it ended
\* a thread inside AudioModule.speak
notSpeak ==
    <<busVars, modVars, asstVars, convVars, hdlVars, healthVars, pipeVars,
      waitVars, statVars, clearVars, subVars>>
notHandler ==
    <<busVars, asstVars, healthVars, pipeVars, waitVars,
      statVars, clearVars,
      subVars, speakVars>>

(***************************************************************************)
(* Sequence helpers.                                                       *)
(***************************************************************************)
RECURSIVE IndexOf(_, _, _)
\* first position >= i of x in s, 0 when absent (list.index / list.remove scan)
IndexOf(s, x, i) ==
    IF i > Len(s) THEN 0
    ELSE IF s[i] = x THEN i
    ELSE IndexOf(s, x, i + 1)

RemoveAt(s, i) == SubSeq(s, 1, i - 1) \o SubSeq(s, i + 1, Len(s))

RECURSIVE SumLen(_, _)
SumLen(f, keys) ==
    IF keys = {} THEN 0
    ELSE LET k == CHOOSE x \in keys : TRUE
         IN  Len(f[k]) + SumLen(f, keys \ {k})

(***************************************************************************)
(* EventBus                                                                *)
(***************************************************************************)
\* The event types the model publishes (two of EventTypes.ALL_TYPES).
EventTypeSet == {"voice_command", "speech_output"}

\* Callback handles.
Callbacks == {"cb1", "cb2", "cb3"}

\* The handles used when two threads share the bus.
ConcCallbacks == {"cb1", "cb2"}

\* Bound: registrations held by the bus at one time, over all types.
MaxSubs == 3

\* dict.get(key, []) : the list of a type, [] when the key is absent
ListOf(d, t) == IF t \in DOMAIN d THEN d[t] ELSE <<>>

\* defaultdict(list).__getitem__ : a missing key is created with []
WithKey(d, t) == IF t \in DOMAIN d THEN d ELSE d @@ (t :> <<>>)

\* list.append(callback)
SubscribeListUnique(list, cb) ==
    IF IndexOf(list, cb, 1) = 0 THEN Append(list, cb) ELSE list
SubscribeList(list, cb) == Append(list, cb)

\* list.remove(callback): drops the first occurrence
RECURSIVE LastIndexOf(_, _, _)
LastIndexOf(list, cb, i) ==
    IF i = 0 THEN 0
    ELSE IF list[i] = cb THEN i ELSE LastIndexOf(list, cb, i - 1)
RemoveLast(list, cb) == RemoveAt(list, LastIndexOf(list, cb, Len(list)))
RemoveFirst(list, cb) == RemoveAt(list, IndexOf(list, cb, 1))

\* get_subscriber_count(event_type) / get_subscriber_count()
GetSubscriberCount(t) == Len(ListOf(subscribers, t))
\* sum(len(subs) for subs in self.subscribers.values())
GetSubscriberCountKeys == Cardinality(DOMAIN subscribers)
GetSubscriberCountAll == SumLen(subscribers, DOMAIN subscribers)

\* The list object the publish in progress iterates over.
IterList == IF pubDetached THEN pubList ELSE ListOf(subscribers, pubType)

\* The list iterator: the item at the iterator's index, in the list as it is now.
IterNext(list, idx) == list[idx + 1]

\* try: callback(event) / except Exception: log -- the dispatch goes on
AfterCallbackNoCatch(raised) == IF raised THEN "raised" ELSE "dispatching"
AfterCallback(raised) == "dispatching"

\* BaseModule.__init__ (and the subclasses' __init__): a fresh instance
InitModuleOf(k) ==
    /\ kind = k
    /\ running = FALSE
    /\ initialized = FALSE
    /\ cleanup_done = FALSE
    /\ status = [state |-> "initializing", error |-> "none"]
    /\ thread = "none"
    /\ stack = <<>>
    /\ exc = "none"
    /\ lastCall = "none"
    /\ result = "none"
    /\ cleanupCalls = 0
    /\ startCalled = FALSE
    /\ stopCompleted = FALSE
    /\ waitpc = "idle"
    /\ waitResult = "none"
    /\ waitSaw = [call |-> "none", result |-> "none", done |-> TRUE]
    /\ lockHolder = "free"
    /\ statusDict = [state |-> 0, last_update |-> 0, error |-> 0]
    /\ upc = [t \in {"u1", "u2"} |-> "idle"]
    /\ updating = [t \in {"u1", "u2"} |-> 0]
    /\ nUpdates = 0
    /\ rpc = "idle"
    /\ snapshot = [state |-> 0, last_update |-> 0, error |-> 0]
    /\ snapshotChanged = FALSE
    /\ handlersSubscribed = FALSE
    /\ is_speaking = FALSE
    /\ audio_queue = << >>
    /\ spc = [t \in {"s1", "s2"} |-> "idle"]
    /\ stext = [t \in {"s1", "s2"} |-> 0]
    /\ spoken = << >>
    /\ nSpeaks = 0

IdleModule == InitModuleOf("base")

\* the three modules _init_modules builds, in the order it inserts them
Modules == {"audio", "conversation", "vision"}
ModulesOrder == <<"audio", "conversation", "vision">>

\* Assistant.__init__: modules built, none started
InitAssistant ==
    /\ apc = "idle"
    /\ ai = 1
    /\ arunning = TRUE
    /\ shutdown_event = FALSE
    /\ pending = "none"
    /\ outcome = "none"
    /\ mRunning = [m \in Modules |-> FALSE]
    /\ mCleanupDone = [m \in Modules \ {"vision"} |-> FALSE]
    /\ vthread = "none"
    /\ startLog = <<>>
    /\ stopLog = <<>>
    /\ stopRaised = {}
    /\ shutdownCalls = 0
    /\ enteredLoop = FALSE
    /\ failedAt = "none"
    /\ intrInShutdown = FALSE
    /\ verified = {}
    /\ mError = [m \in Modules \ {"vision"} |-> FALSE]
    /\ errorLogged = {}

\* ConversationModule.__init__: empty queue, empty history, no thread
InitConversation ==
    /\ message_queue = <<>>
    /\ conversation_history = <<>>
    /\ is_processing = FALSE
    /\ wpc = "loop_test"
    /\ current = 0
    /\ nextId = 1
    /\ processedLog = <<>>
    /\ nFinished = 0
    /\ clearedAt = 0
    /\ lastFailed = 0
    /\ stopBegun = FALSE
    /\ pendingAtStop = {}
    /\ gotAfterStop = {}
    /\ handlerResult = "none"
    /\ wellFormedSeen = 0
    /\ responded = "none"
    /\ outEvents = <<>>

InitBus ==
    /\ subscribers = << >>
    /\ regs = [t \in EventTypeSet |-> <<>>]
    /\ callResult = "none"
    /\ pubpc = "idle"
    /\ pubType = "none"
    /\ pubIdx = 0
    /\ pubList = <<>>
    /\ pubDetached = FALSE
    /\ called = <<>>
    /\ atStart = <<>>
    /\ cleared = FALSE

\* EventBus.subscribe(event_type, callback)
Subscribe(t, cb) ==
    /\ UNCHANGED notBus
    /\ cleared' = FALSE
    /\ GetSubscriberCountAll < MaxSubs
    /\ subscribers' = [WithKey(subscribers, t) EXCEPT ![t] = SubscribeList(@, cb)]
    /\ regs' = [regs EXCEPT ![t] = Append(@, cb)]
    /\ callResult' = "ok"
    /\ UNCHANGED <<pubpc, pubType, pubIdx, pubList, pubDetached, called, atStart>>

\* EventBus.unsubscribe(event_type, callback)
Unsubscribe(t, cb) ==
    /\ UNCHANGED notBus
    /\ UNCHANGED cleared
    /\ IF t \in DOMAIN subscribers
       THEN IF IndexOf(subscribers[t], cb, 1) # 0
            THEN /\ subscribers' = [subscribers EXCEPT ![t] = RemoveFirst(@, cb)]
                 /\ regs' = [regs EXCEPT ![t] = RemoveAt(@, IndexOf(@, cb, 1))]
                 /\ callResult' = "ok"
            ELSE \* list.remove raises ValueError, nothing catches it
                 /\ callResult' = "ValueError"
                 /\ UNCHANGED <<subscribers, regs>>
       ELSE /\ callResult' = "ok"
            /\ UNCHANGED <<subscribers, regs>>
    /\ UNCHANGED <<pubpc, pubType, pubIdx, pubList, pubDetached, called, atStart>>

\* self.subscribers.clear(): no key is left
DictClearNoOp(d) == d
DictClear(d) == << >>

\* EventBus.clear_all_subscribers(): dict.clear(); a list being iterated
\* stays alive, unchanged, in the iterator alone
ClearAllSubscribers ==
    /\ UNCHANGED notBus
    /\ cleared' = TRUE
    /\ subscribers' = DictClear(subscribers)
    /\ regs' = [t \in EventTypeSet |-> <<>>]
    /\ callResult' = "ok"
    /\ IF pubpc = "dispatching" /\ ~pubDetached
       THEN /\ pubList' = IterList
            /\ pubDetached' = TRUE
       ELSE UNCHANGED <<pubList, pubDetached>>
    /\ UNCHANGED <<pubpc, pubType, pubIdx, called, atStart>>

\* self.subscribers[event.type]: a defaultdict never raises KeyError
GetItemPlainDict(d, t) == IF t \in DOMAIN d THEN "dispatching" ELSE "raised"
GetItem(d, t) == "dispatching"

\* EventBus.publish(event): entering the for loop
PublishBegin(t) ==
    /\ UNCHANGED notBus
    /\ UNCHANGED cleared
    /\ pubpc = "idle"
    /\ subscribers' = WithKey(subscribers, t)
    /\ pubpc' = GetItem(subscribers, t)
    /\ pubType' = t
    /\ pubIdx' = 0
    /\ pubList' = <<>>
    /\ pubDetached' = FALSE
    /\ called' = <<>>
    /\ atStart' = ListOf(subscribers, t)
    /\ UNCHANGED <<regs, callResult>>

\* one turn of the loop: the iterator yields, the callback runs and returns
\* or raises an Exception
PublishStep(raised) ==
    /\ UNCHANGED notBus
    /\ UNCHANGED cleared
    /\ pubpc = "dispatching"
    /\ pubIdx < Len(IterList)
    /\ called' = Append(called, [cb |-> IterNext(IterList, pubIdx),
                                 raised |-> raised])
    /\ pubpc' = AfterCallback(raised)
    /\ pubIdx' = pubIdx + 1
    /\ UNCHANGED <<subscribers, regs, callResult, pubType, pubList,
                   pubDetached, atStart>>

\* the iterator is exhausted: publish returns
PublishReturn ==
    /\ UNCHANGED notBus
    /\ UNCHANGED cleared
    /\ pubpc = "dispatching"
    /\ pubIdx >= Len(IterList)
    /\ pubpc' = "returned"
    /\ UNCHANGED <<subscribers, regs, callResult, pubType, pubIdx, pubList,
                   pubDetached, called, atStart>>

\* the publisher goes on after publish returned or raised
PublishAck ==
    /\ UNCHANGED notBus
    /\ UNCHANGED cleared
    /\ pubpc \in {"returned", "raised"}
    /\ pubpc' = "idle"
    /\ pubType' = "none"
    /\ pubIdx' = 0
    /\ pubList' = <<>>
    /\ pubDetached' = FALSE
    /\ called' = <<>>
    /\ atStart' = <<>>
    /\ UNCHANGED <<subscribers, regs, callResult>>

\* One thread makes all the calls: no registry call during a dispatch.
NextBus ==
    \/ \E t \in EventTypeSet, cb \in Callbacks : pubpc = "idle" /\ Subscribe(t, cb)
    \/ \E t \in EventTypeSet, cb \in Callbacks : pubpc = "idle" /\ Unsubscribe(t, cb)
    \/ pubpc = "idle" /\ ClearAllSubscribers
    \/ \E t \in EventTypeSet : PublishBegin(t)
    \/ \E raised \in BOOLEAN : PublishStep(raised)
    \/ PublishReturn
    \/ PublishAck

\* A publisher thread and a thread that subscribes and unsubscribes,
\* interleaved at the grain of the interpreter: a list operation or one loop
\* turn is one step.  The callbacks here return normally.
NextBusConc ==
    \/ \E t \in EventTypeSet, cb \in ConcCallbacks : Subscribe(t, cb)
    \/ \E t \in EventTypeSet, cb \in ConcCallbacks : Unsubscribe(t, cb)
    \/ \E t \in EventTypeSet : PublishBegin(t)
    \/ PublishStep(FALSE)
    \/ PublishReturn
    \/ PublishAck

InitSpecBus == InitBus /\ IdleModule /\ InitAssistant /\ InitConversation
SpecBus == InitSpecBus /\ [][NextBus]_vars
SpecBusConc == InitSpecBus /\ [][NextBusConc]_vars

\* the callbacks invoked, in invocation order
CalledCbs == [i \in 1..Len(called) |-> called[i].cb]

(***************************************************************************)
(* Claims on the EventBus                                                  *)
(***************************************************************************)
\* C1: once publish(event) has returned, it has invoked exactly the callbacks
\* registered for event.type, once per registration (a callback subscribed k
\* times k times), in subscription order, and none of another type.
PublishInvokesEveryRegistration ==
    pubpc = "returned" =>
        /\ CalledCbs = regs[pubType]
        /\ \A i \in 1..Len(called) : IndexOf(regs[pubType], called[i].cb, 1) # 0

\* a publish returned after invoking one callback twice (two registrations)
\* while another callback is registered for the other type only
PublishTwiceRegisteredReached ==
    /\ pubpc = "returned"
    /\ Len(called) = 2
    /\ called[1].cb = called[2].cb
    /\ \E t \in EventTypeSet \ {pubType} :
          /\ Len(regs[t]) = 1
          /\ regs[t][1] # called[1].cb

\* C2: a subscriber that raises does not stop the dispatch: every subscriber
\* after it in the list is still invoked, and publish returns normally.
RaisingSubscriberIsIsolated ==
    /\ pubpc # "raised"
    /\ pubpc = "returned" =>
          \A i \in 1..Len(called) :
             called[i].raised =>
                \A j \in (i + 1)..Len(ListOf(subscribers, pubType)) :
                   /\ j <= Len(called)
                   /\ called[j].cb = subscribers[pubType][j]

\* three distinct subscribers, the middle one raised, first and third ran
MiddleSubscriberRaisedReached ==
    /\ pubpc = "returned"
    /\ Len(called) = 3
    /\ ~called[1].raised /\ called[2].raised /\ ~called[3].raised
    /\ Cardinality({called[i].cb : i \in 1..3}) = 3

\* C3: with subscribe/unsubscribe running on another thread, a publish
\* delivers to exactly the subscribers registered for its type when its
\* dispatch began, each once, and does not fail.
ConcurrentPublishDeliversStartList ==
    /\ pubpc # "raised"
    /\ pubpc = "returned" => CalledCbs = atStart

\* C18: unsubscribe of a callback that is not registered for the type
\* returns without raising (and leaves the registry as it was).
UnsubscribeAbsentIsNoOp == callResult # "ValueError"

(***************************************************************************)
(* Callbacks that call back into the bus: the callback invoked by a turn   *)
(* of publish's loop calls unsubscribe or subscribe for the event's type   *)
(* before it returns, on the publishing thread.                            *)
(***************************************************************************)
\* one turn of the loop whose callback calls unsubscribe(event.type, cb);
\* a ValueError from list.remove leaves the callback and is caught by publish
CallbackUnsubscribes(cb) ==
    /\ UNCHANGED notBus
    /\ UNCHANGED cleared
    /\ pubpc = "dispatching"
    /\ pubIdx < Len(IterList)
    /\ LET present == IndexOf(subscribers[pubType], cb, 1) # 0 IN
       /\ called' = Append(called, [cb |-> IterNext(IterList, pubIdx),
                                    raised |-> ~present])
       /\ pubpc' = AfterCallback(~present)
       /\ IF present
          THEN /\ subscribers' = [subscribers EXCEPT
                                    ![pubType] = RemoveFirst(@, cb)]
               /\ regs' = [regs EXCEPT
                             ![pubType] = RemoveAt(@, IndexOf(@, cb, 1))]
               /\ callResult' = "ok"
          ELSE /\ callResult' = "ValueError"
               /\ UNCHANGED <<subscribers, regs>>
    /\ pubIdx' = pubIdx + 1
    /\ UNCHANGED <<pubType, pubList, pubDetached, atStart>>

\* one turn of the loop whose callback calls subscribe(event.type, cb)
CallbackSubscribes(cb) ==
    /\ UNCHANGED notBus
    /\ cleared' = FALSE
    /\ pubpc = "dispatching"
    /\ pubIdx < Len(IterList)
    /\ GetSubscriberCountAll < MaxSubs
    /\ called' = Append(called, [cb |-> IterNext(IterList, pubIdx),
                                 raised |-> FALSE])
    /\ pubpc' = AfterCallback(FALSE)
    /\ subscribers' = [subscribers EXCEPT ![pubType] = SubscribeList(@, cb)]
    /\ regs' = [regs EXCEPT ![pubType] = Append(@, cb)]
    /\ callResult' = "ok"
    /\ pubIdx' = pubIdx + 1
    /\ UNCHANGED <<pubType, pubList, pubDetached, atStart>>

\* One thread makes all the calls; between dispatches it subscribes and
\* unsubscribes, and the callbacks of a dispatch may do so as well.
NextBusReentrant ==
    \/ \E t \in EventTypeSet, cb \in Callbacks : pubpc = "idle" /\ Subscribe(t, cb)
    \/ \E t \in EventTypeSet, cb \in Callbacks : pubpc = "idle" /\ Unsubscribe(t, cb)
    \/ \E t \in EventTypeSet : PublishBegin(t)
    \/ PublishStep(FALSE)
    \/ \E cb \in Callbacks : CallbackUnsubscribes(cb)
    \/ \E cb \in Callbacks : CallbackSubscribes(cb)
    \/ PublishReturn
    \/ PublishAck

SpecBusReentrant == InitSpecBus /\ [][NextBusReentrant]_vars

\* how many times cb occurs in the list s
Occurrences(s, cb) == Cardinality({i \in 1..Len(s) : s[i] = cb})

\* C19: a dispatch whose callbacks subscribe or unsubscribe for the event's
\* type still invokes each subscriber registered when it began exactly
\* once, and no subscriber added meanwhile.
ReentrantDispatchDeliversStartList ==
    pubpc = "returned" =>
        \A cb \in Callbacks :
            Occurrences(CalledCbs, cb) = Occurrences(atStart, cb)

(***************************************************************************)
(* Module lifecycle: BaseModule (core/base.py), ConversationModule and     *)
(* AudioModule.  start() and stop() run one statement per step on a call   *)
(* stack; each stack entry is the label of the statement its function      *)
(* executes next.                                                          *)
(***************************************************************************)
ModuleKinds == {"base", "conversation", "audio"}

\* Bound standing for the interpreter's recursion limit: the deepest call
\* stack start()/stop() may build before a call raises RecursionError.
MaxDepth == 7

Top == stack[Len(stack)]
Pop == SubSeq(stack, 1, Len(stack) - 1)
\* the running function moves to label l
Goto(l) == [stack EXCEPT ![Len(stack)] = l]
\* the running function moves to label l and calls the function entered at c
Call(l, c) == Append(Goto(l), c)

\* is_running(): self.running and self._initialized.is_set()
IsRunning == running /\ initialized

\* what _initialize() can do: the audio and conversation modules catch every
\* Exception and return False; an arbitrary subclass may raise
InitializeOutcomes(k) ==
    IF k = "base" THEN {"true", "false", "raise"} ELSE {"true", "false"}

\* what cleanup() of an arbitrary subclass can do; ConversationModule.cleanup
\* catches every Exception
CleanupOutcomes(k) ==
    IF k = "base" THEN {"return", "raise"} ELSE {"return"}

\* the entry label of stop() and of cleanup() of each class
StopEntry(k) ==
    CASE k = "audio" -> "astop_body"
      [] k = "conversation" -> "cstop_flag"
      [] OTHER -> "stop_test"
StartEntry(k) == IF k = "conversation" THEN "cstart_super" ELSE "start_init"
CleanupEntry(k) ==
    CASE k = "audio" -> "acleanup_stop"
      [] k = "conversation" -> "ccleanup_body"
      [] OTHER -> "cleanup_body"

\* if not self._cleanup_done:
StopGuard == ~cleanup_done

\* update_status(state, error): one assignment under self._lock
UpdateStatusDropsError(state, error) ==
    status' = [state |-> state, error |-> "none"]
UpdateStatus(state, error) == status' = [state |-> state, error |-> error]

\* the running function returns v / raises e: to its caller's frame, or to
\* the code that called start()/stop()
Return(v) ==
    /\ stack' = Pop
    /\ exc' = "none"
    /\ result' = IF Len(stack) = 1 THEN v ELSE result
    /\ stopCompleted' = (stopCompleted \/ (Len(stack) = 1 /\ lastCall = "stop"))
Raise(e) ==
    /\ stack' = Pop
    /\ exc' = IF Len(stack) = 1 THEN "none" ELSE e
    /\ result' = IF Len(stack) = 1 THEN e ELSE result
    /\ stopCompleted' = (stopCompleted \/ (Len(stack) = 1 /\ lastCall = "stop"))
Stay == UNCHANGED <<exc, result, stopCompleted>>

\* Bound: items the conversation queue holds when a handler or stop() puts
\* one more.
MaxQueue == 2

\* ---- calls made on the instance ----
CallStart ==
    /\ UNCHANGED notMod
    /\ UNCHANGED handlersSubscribed
    /\ stack = <<>>
    /\ stack' = <<StartEntry(kind)>>
    /\ lastCall' = "start"
    /\ result' = "none"
    /\ startCalled' = TRUE
    /\ UNCHANGED <<kind, running, initialized, cleanup_done, status, thread,
                   exc, cleanupCalls, stopCompleted>>

CallStop ==
    /\ UNCHANGED notMod
    /\ UNCHANGED handlersSubscribed
    /\ stack = <<>>
    /\ Len(message_queue) <= MaxQueue
    /\ stack' = <<StopEntry(kind)>>
    /\ lastCall' = "stop"
    /\ result' = "none"
    /\ UNCHANGED <<kind, running, initialized, cleanup_done, status, thread,
                   exc, cleanupCalls, startCalled, stopCompleted>>

\* ConversationModule._initialize: the two subscribe calls come last, after
\* the language processor was built; a failed _initialize made neither
SubscribeHandlers(k, o) ==
    handlersSubscribed \/ (k = "conversation" /\ o = "true")

\* ---- BaseModule.start ----
\* if self._initialize(): ... else: update_status('error', ...); raise
StartInitialize ==
    /\ UNCHANGED notMod
    /\ stack # <<>> /\ Top = "start_init"
    /\ \E o \in InitializeOutcomes(kind) :
          /\ handlersSubscribed' = SubscribeHandlers(kind, o)
          /\ CASE o = "true"  -> /\ stack' = Goto("start_set_running")
                                 /\ UNCHANGED <<status, exc>>
               [] o = "false" -> /\ UpdateStatus("error", "Initialization failed")
                                 /\ stack' = Goto("start_except")
                                 /\ exc' = "RuntimeError"
               [] OTHER       -> /\ stack' = Goto("start_except")
                                 /\ exc' = "Exception"
                                 /\ UNCHANGED status
    /\ UNCHANGED <<kind, running, initialized, cleanup_done, thread, lastCall,
                   result, cleanupCalls, startCalled, stopCompleted>>

\* self.running = True
StartSetRunning ==
    /\ UNCHANGED notMod
    /\ UNCHANGED handlersSubscribed
    /\ stack # <<>> /\ Top = "start_set_running"
    /\ running' = TRUE
    /\ stack' = Goto("start_set_event")
    /\ UNCHANGED <<kind, initialized, cleanup_done, status, thread, exc,
                   lastCall, result, cleanupCalls, startCalled, stopCompleted>>

\* self._initialized.set()
StartSetEvent ==
    /\ UNCHANGED notMod
    /\ UNCHANGED handlersSubscribed
    /\ stack # <<>> /\ Top = "start_set_event"
    /\ initialized' = TRUE
    /\ stack' = Goto("start_update")
    /\ UNCHANGED <<kind, running, cleanup_done, status, thread, exc,
                   lastCall, result, cleanupCalls, startCalled, stopCompleted>>

\* self.update_status('running'); return True
StartUpdateStatus ==
    /\ UNCHANGED notMod
    /\ UNCHANGED handlersSubscribed
    /\ stack # <<>> /\ Top = "start_update"
    /\ UpdateStatus("running", "none")
    /\ Return("True")
    /\ UNCHANGED <<kind, running, initialized, cleanup_done, thread,
                   lastCall, cleanupCalls, startCalled>>

\* except Exception as e: update_status('error', str(e)); raise
StartExcept ==
    /\ UNCHANGED notMod
    /\ UNCHANGED handlersSubscribed
    /\ stack # <<>> /\ Top = "start_except"
    /\ UpdateStatus("error", exc)
    /\ Raise(exc)
    /\ UNCHANGED <<kind, running, initialized, cleanup_done, thread,
                   lastCall, cleanupCalls, startCalled>>

\* ---- ConversationModule.start ----
\* if super().start():
ConvStartSuper ==
    /\ UNCHANGED notMod
    /\ UNCHANGED handlersSubscribed
    /\ stack # <<>> /\ Top = "cstart_super"
    /\ stack' = Call("cstart_thread", "start_init")
    /\ UNCHANGED <<kind, running, initialized, cleanup_done, status, thread,
                   exc, lastCall, result, cleanupCalls, startCalled,
                   stopCompleted>>

\* if self.running: start the processing thread; return True / return False
ConvStartThread ==
    /\ UNCHANGED notMod
    /\ UNCHANGED handlersSubscribed
    /\ stack # <<>> /\ Top = "cstart_thread"
    /\ IF exc # "none"
       THEN Raise(exc) /\ UNCHANGED thread
       ELSE IF running
            THEN thread' = "alive" /\ Return("True")
            ELSE UNCHANGED thread /\ Return("False")
    /\ UNCHANGED <<kind, running, initialized, cleanup_done, status,
                   lastCall, cleanupCalls, startCalled>>

\* ---- BaseModule.stop ----
StopTest ==
    /\ UNCHANGED notMod
    /\ UNCHANGED handlersSubscribed
    /\ stack # <<>> /\ Top = "stop_test"
    /\ IF StopGuard
       THEN stack' = Goto("stop_clear_running") /\ Stay
       ELSE Return("None")
    /\ UNCHANGED <<kind, running, initialized, cleanup_done, status, thread,
                   lastCall, cleanupCalls, startCalled>>

\* self.running = False
StopClearRunning ==
    /\ UNCHANGED notMod
    /\ UNCHANGED handlersSubscribed
    /\ stack # <<>> /\ Top = "stop_clear_running"
    /\ running' = FALSE
    /\ stack' = Goto("stop_clear_event")
    /\ UNCHANGED <<kind, initialized, cleanup_done, status, thread, exc,
                   lastCall, result, cleanupCalls, startCalled, stopCompleted>>

\* self._initialized.clear()
StopClearEvent ==
    /\ UNCHANGED notMod
    /\ UNCHANGED handlersSubscribed
    /\ stack # <<>> /\ Top = "stop_clear_event"
    /\ initialized' = FALSE
    /\ stack' = Goto("stop_call_cleanup")
    /\ UNCHANGED <<kind, running, cleanup_done, status, thread, exc,
                   lastCall, result, cleanupCalls, startCalled, stopCompleted>>

\* try: self.cleanup()   -- the call raises RecursionError on a full stack
StopCallCleanup ==
    /\ UNCHANGED notMod
    /\ UNCHANGED handlersSubscribed
    /\ stack # <<>> /\ Top = "stop_call_cleanup"
    /\ IF Len(stack) < MaxDepth
       THEN /\ stack' = Call("stop_finally", CleanupEntry(kind))
            /\ cleanupCalls' = cleanupCalls + 1
            /\ UNCHANGED exc
       ELSE /\ stack' = Goto("stop_finally")
            /\ exc' = "RecursionError"
            /\ UNCHANGED cleanupCalls
    /\ UNCHANGED <<kind, running, initialized, cleanup_done, status, thread,
                   lastCall, result, startCalled, stopCompleted>>

\* finally: self._cleanup_done = True   -- then the exception, if any, goes on
StopFinally ==
    /\ UNCHANGED notMod
    /\ UNCHANGED handlersSubscribed
    /\ stack # <<>> /\ Top = "stop_finally"
    /\ cleanup_done' = TRUE
    /\ IF exc # "none"
       THEN Raise(exc)
       ELSE stack' = Goto("stop_update") /\ Stay
    /\ UNCHANGED <<kind, running, initialized, status, thread, lastCall,
                   cleanupCalls, startCalled>>

\* self.update_status('stopped')
StopUpdateStatus ==
    /\ UNCHANGED notMod
    /\ UNCHANGED handlersSubscribed
    /\ stack # <<>> /\ Top = "stop_update"
    /\ UpdateStatus("stopped", "none")
    /\ Return("None")
    /\ UNCHANGED <<kind, running, initialized, cleanup_done, thread,
                   lastCall, cleanupCalls, startCalled>>

\* ---- cleanup() of an arbitrary subclass, and ConversationModule.cleanup ----
\* ConversationModule.cleanup: get_nowait() until the queue is empty (the
\* sentinel goes with the rest), then conversation_history.clear()
CleanupBody ==
    /\ UNCHANGED notConv
    /\ stack # <<>> /\ Top \in {"cleanup_body", "ccleanup_body"}
    /\ \E o \in CleanupOutcomes(kind) :
          IF o = "return" THEN Return("None") ELSE Raise("Exception")
    /\ IF Top = "ccleanup_body"
       THEN /\ message_queue' = <<>>
            /\ conversation_history' = <<>>
            /\ clearedAt' = Len(processedLog)
       ELSE UNCHANGED <<message_queue, conversation_history, clearedAt>>
    /\ UNCHANGED <<is_processing, wpc, current, nextId, processedLog,
                   nFinished, lastFailed, stopBegun, pendingAtStop,
                   gotAfterStop>>
    /\ UNCHANGED <<kind, running, initialized, cleanup_done, status, thread,
                   lastCall, cleanupCalls, startCalled>>

\* ---- AudioModule.stop ----
\* self.is_speaking = False; empty the audio queue; super().stop()
AudioStopBody ==
    /\ UNCHANGED notMod
    /\ UNCHANGED handlersSubscribed
    /\ stack # <<>> /\ Top = "astop_body"
    /\ IF Len(stack) < MaxDepth
       THEN stack' = Call("astop_ret", "stop_test") /\ UNCHANGED exc
       ELSE stack' = Goto("astop_ret") /\ exc' = "RecursionError"
    /\ UNCHANGED <<kind, running, initialized, cleanup_done, status, thread,
                   lastCall, result, cleanupCalls, startCalled, stopCompleted>>

AudioStopReturn ==
    /\ UNCHANGED notMod
    /\ UNCHANGED handlersSubscribed
    /\ stack # <<>> /\ Top = "astop_ret"
    /\ IF exc # "none" THEN Raise(exc) ELSE Return("None")
    /\ UNCHANGED <<kind, running, initialized, cleanup_done, status, thread,
                   lastCall, cleanupCalls, startCalled>>

\* ---- AudioModule.cleanup ----
\* self.stop()
AudioCleanupStop ==
    /\ UNCHANGED notMod
    /\ UNCHANGED handlersSubscribed
    /\ stack # <<>> /\ Top = "acleanup_stop"
    /\ IF Len(stack) < MaxDepth
       THEN stack' = Call("acleanup_del", "astop_body") /\ UNCHANGED exc
       ELSE stack' = Goto("acleanup_del") /\ exc' = "RecursionError"
    /\ UNCHANGED <<kind, running, initialized, cleanup_done, status, thread,
                   lastCall, result, cleanupCalls, startCalled, stopCompleted>>

\* del self.tts_engine; log
AudioCleanupDel ==
    /\ UNCHANGED notMod
    /\ UNCHANGED handlersSubscribed
    /\ stack # <<>> /\ Top = "acleanup_del"
    /\ IF exc # "none" THEN Raise(exc) ELSE Return("None")
    /\ UNCHANGED <<kind, running, initialized, cleanup_done, status, thread,
                   lastCall, cleanupCalls, startCalled>>

\* ---- ConversationModule.stop ----
\* the shutdown sentinel: message_queue.put(None)
Sentinel == 0

\* the messages waiting in the queue
QueuedMessages ==
    {message_queue[i] : i \in 1..Len(message_queue)} \ {Sentinel}

\* self.running = False; self.message_queue.put(None)  (a Queue object is
\* always true, so the sentinel is always put, behind what is queued)
ConvStopFlag ==
    /\ UNCHANGED notConv
    /\ stack # <<>> /\ Top = "cstop_flag"
    /\ running' = FALSE
    /\ message_queue' = Append(message_queue, Sentinel)
    /\ stopBegun' = TRUE
    /\ pendingAtStop' = IF stopBegun THEN pendingAtStop ELSE QueuedMessages
    /\ UNCHANGED <<conversation_history, is_processing, wpc, current, nextId,
                   processedLog, nFinished, clearedAt, lastFailed,
                   gotAfterStop>>
    /\ stack' = Goto("cstop_join")
    /\ UNCHANGED <<kind, initialized, cleanup_done, status, thread, exc,
                   lastCall, result, cleanupCalls, startCalled, stopCompleted>>

\* if thread is alive: join(timeout=2.0) -- ends when the thread has exited
\* or when the timeout elapsed; then super().stop()
ConvStopJoin ==
    /\ UNCHANGED notMod
    /\ UNCHANGED handlersSubscribed
    /\ stack # <<>> /\ Top = "cstop_join"
    /\ stack' = Call("cstop_ret", "stop_test")
    /\ UNCHANGED <<kind, running, initialized, cleanup_done, status, thread,
                   exc, lastCall, result, cleanupCalls, startCalled,
                   stopCompleted>>

ConvStopReturn ==
    /\ UNCHANGED notMod
    /\ UNCHANGED handlersSubscribed
    /\ stack # <<>> /\ Top = "cstop_ret"
    /\ IF exc # "none" THEN Raise(exc) ELSE Return("None")
    /\ UNCHANGED <<kind, running, initialized, cleanup_done, status, thread,
                   lastCall, cleanupCalls, startCalled>>

\* the processing thread leaves its loop: it read the sentinel, or found
\* self.running false at the loop test
WorkerExit ==
    /\ UNCHANGED notMod
    /\ UNCHANGED handlersSubscribed
    /\ thread = "alive"
    /\ ~running
    /\ thread' = "exited"
    /\ UNCHANGED <<kind, running, initialized, cleanup_done, status, stack,
                   exc, lastCall, result, cleanupCalls, startCalled,
                   stopCompleted>>

\* ---- wait_until_ready(timeout), called from another thread ----
\* self._initialized.wait(timeout=timeout) is entered
WaitCall ==
    /\ UNCHANGED notWait
    /\ waitpc \in {"idle", "returned"}
    /\ waitpc' = "waiting"
    /\ waitResult' = "none"
    /\ UNCHANGED waitSaw

\* Event.wait returns True as soon as the flag is set, False when the
\* timeout elapses with the flag clear
EventWait(flag, timedOut) == IF flag THEN "True" ELSE "False"

WaitReturn(timedOut) ==
    /\ UNCHANGED notWait
    /\ waitpc = "waiting"
    /\ initialized \/ timedOut
    /\ waitpc' = "returned"
    /\ waitResult' = EventWait(initialized, timedOut)
    /\ waitSaw' = [call |-> lastCall, result |-> result, done |-> stack = << >>]

InitSpecModule ==
    /\ InitBus
    /\ InitAssistant
    /\ InitConversation
    /\ \E k \in ModuleKinds : InitModuleOf(k)

NextModule ==
    \/ CallStart
    \/ CallStop
    \/ StartInitialize
    \/ StartSetRunning
    \/ StartSetEvent
    \/ StartUpdateStatus
    \/ StartExcept
    \/ ConvStartSuper
    \/ ConvStartThread
    \/ StopTest
    \/ StopClearRunning
    \/ StopClearEvent
    \/ StopCallCleanup
    \/ StopFinally
    \/ StopUpdateStatus
    \/ CleanupBody
    \/ AudioStopBody
    \/ AudioStopReturn
    \/ AudioCleanupStop
    \/ AudioCleanupDel
    \/ ConvStopFlag
    \/ ConvStopJoin
    \/ ConvStopReturn
    \/ WorkerExit
    \/ WaitCall
    \/ \E timedOut \in BOOLEAN : WaitReturn(timedOut)

SpecModule == InitSpecModule /\ [][NextModule]_vars

(***************************************************************************)
(* Claims on the module lifecycle                                          *)
(***************************************************************************)
AllowedTransitions ==
    { <<"initializing", "running">>, <<"running", "stopped">>,
      <<"initializing", "error">>, <<"running", "error">> }

\* C4: over every sequence of start() and stop() calls on one instance the
\* status state changes only along initializing -> running,
\* running -> stopped, initializing -> error, running -> error; stopped and
\* error are never left.
StatusFollowsLifecycle ==
    [][status.state' # status.state =>
          <<status.state, status.state'>> \in AllowedTransitions]_vars

\* C5: is_running() is false before start() is called, true once start()
\* has returned successfully, and false once stop() has been called,
\* whether it returned or raised.
IsRunningFollowsCalls ==
    /\ ~startCalled => ~IsRunning
    /\ (stack = <<>> /\ lastCall = "start" /\ result = "True") => IsRunning
    /\ (stack = <<>> /\ lastCall = "stop") => ~IsRunning

\* C6: for the base lifecycle, the conversation module and the audio module,
\* once a stop() call has ended, cleanup() has been invoked exactly once,
\* however many stop() calls were made.
StopRunsCleanupOnce == stopCompleted => cleanupCalls = 1

\* C16: a start() whose _initialize() returned False or raised ends by
\* raising, with the state error and an error message, and no step of it
\* sets the running flag, signals readiness or launches the processing
\* thread; a start() that returned True leaves the state running with the
\* flag set and readiness signaled.
StartFailureLeavesError ==
    /\ [](   (stack = <<>> /\ lastCall = "start" /\ status.state = "error")
           => (result \in {"RuntimeError", "Exception"}
               /\ status.error # "none"))
    /\ [](   (stack = <<>> /\ lastCall = "start"
               /\ result \in {"RuntimeError", "Exception"})
           => status.state = "error")
    /\ [](   (stack = <<>> /\ lastCall = "start" /\ result = "True")
           => (status.state = "running" /\ running /\ initialized))
    /\ [][   (lastCall' = "start" /\ (exc # "none" \/ exc' # "none"))
           => (running' = running /\ initialized' = initialized
               /\ (thread' = "alive" => thread = "alive"))]_vars

\* the first start() of a conversation module raised: state error, no
\* flag set, no processing thread
ConversationStartRaisedReached ==
    /\ kind = "conversation"
    /\ stack = <<>> /\ lastCall = "start" /\ result = "RuntimeError"
    /\ status.state = "error" /\ status.error # "none"
    /\ ~running /\ ~initialized /\ thread = "none"
    /\ ~stopCompleted

\* C17: the running flag and the readiness condition are never seen one
\* set and the other clear.
RunningAndReadyChangeTogether == running = initialized

(***************************************************************************)
(* ConversationModule: the handlers that enqueue, the processing thread    *)
(* and stop(), interleaved.  The lifecycle steps are the ones above, on an *)
(* instance of kind conversation; the processing thread runs one statement *)
(* group of _processing_loop per step.  Messages are numbered in the order *)
(* the handlers put them on the queue.                                     *)
(***************************************************************************)
\* Bound: messages the handlers enqueue in one run.
MaxMsgs == 7

\* getattr(self.config, 'max_history', 10), scaled down for the model
MaxHistory == 2

\* queue.Queue.get(): the oldest item
QueueGetNewest(q) == q[Len(q)]
QueueGet(q) == q[1]

RECURSIVE TrimHistory(_)
\* while len(history) > max_history: history.pop(0)
TrimHistoryKeepOldest(h) ==
    IF Len(h) > MaxHistory THEN SubSeq(h, 1, MaxHistory) ELSE h
TrimHistory(h) ==
    IF Len(h) > MaxHistory THEN TrimHistory(Tail(h)) ELSE h

\* _process_message: try: ... except Exception: log -- it returns either way
AfterPipelineNoCatch(raised) == IF raised THEN "crashed" ELSE "clear"
AfterPipeline(raised) == "clear"

\* the lifecycle fields a step of the processing thread or a handler leaves
\* alone (all but the thread itself)
LifecycleSame ==
    UNCHANGED <<kind, running, initialized, cleanup_done, status, stack, exc,
                lastCall, result, cleanupCalls, startCalled, stopCompleted>>

\* event.data as a handler may receive it: not a mapping at all (None, a
\* string), or a dict in which a field is absent, empty or a text
FieldValues == {"absent", "", "hello"}
EventData ==
    {d \in [mapping : BOOLEAN, command : FieldValues, text : FieldValues] :
        /\ ~d.mapping => (d.command = "absent" /\ d.text = "absent")
        /\ d.command = "absent" \/ d.text = "absent"}

\* event.data.get(field): AttributeError when data has no get, None when
\* the key is absent, the value otherwise
DataGet(d, field) ==
    IF ~d.mapping THEN "AttributeError"
    ELSE IF d[field] = "absent" THEN "None"
    ELSE d[field]

\* "if command:" / "if text:" -- None and '' are false
TruthyNotNone(v) == v # "None"
Truthy(v) == v \notin {"None", ""}

\* except Exception as e: logger.error(...) -- the callback returns
AfterHandlerRaise == "returned"

\* the event carries a non-empty text in the field the handler reads
WellFormed(d, field) == d.mapping /\ d[field] \notin {"absent", ""}

\* handle_voice_command / handle_text_input: inside try, get the field and
\* put a Message when it is true; an exception is logged
Enqueue(d, field) ==
    /\ UNCHANGED notHandler
    /\ LifecycleSame
    /\ nextId <= MaxMsgs
    /\ Len(message_queue) < MaxQueue
    /\ LET v == DataGet(d, field) IN
       IF v = "AttributeError"
       THEN /\ handlerResult' = AfterHandlerRaise
            /\ UNCHANGED <<message_queue, nextId>>
       ELSE /\ handlerResult' = "returned"
            /\ IF Truthy(v)
               THEN /\ message_queue' = Append(message_queue, nextId)
                    /\ nextId' = nextId + 1
               ELSE UNCHANGED <<message_queue, nextId>>
    /\ wellFormedSeen' = wellFormedSeen + (IF WellFormed(d, field) THEN 1 ELSE 0)
    /\ UNCHANGED <<thread, conversation_history, is_processing, wpc, current,
                   processedLog, nFinished, clearedAt, lastFailed, stopBegun,
                   pendingAtStop, gotAfterStop>>

HandleVoiceCommand(d) == Enqueue(d, "command")
HandleTextInput(d) == Enqueue(d, "text")

\* the condition of the processing loop: self.running
LoopConditionAlways(r) == TRUE
LoopCondition(r) == r

\* while self.running:
WorkerLoopTest ==
    /\ UNCHANGED notConv
    /\ LifecycleSame
    /\ thread = "alive" /\ wpc = "loop_test"
    /\ IF LoopCondition(running)
       THEN wpc' = "get" /\ UNCHANGED thread
       ELSE thread' = "exited" /\ UNCHANGED wpc
    /\ UNCHANGED <<message_queue, conversation_history, is_processing,
                   current, nextId, processedLog, nFinished, clearedAt,
                   lastFailed, stopBegun, pendingAtStop, gotAfterStop>>

\* except queue.Empty: continue -- back to the loop test
AfterEmptyNoCatch == "crashed"
AfterEmpty == "loop_test"

\* message = self.message_queue.get(timeout=1.0): queue.Empty after the
\* timeout -> continue; None -> break; else self.is_processing = True
WorkerGet ==
    /\ UNCHANGED notConv
    /\ LifecycleSame
    /\ thread = "alive" /\ wpc = "get"
    /\ IF message_queue = <<>>
       THEN /\ wpc' = AfterEmpty
            /\ UNCHANGED <<thread, message_queue, is_processing, current,
                           gotAfterStop>>
       ELSE LET m == QueueGet(message_queue) IN
            /\ message_queue' = RemoveAt(message_queue,
                                         IndexOf(message_queue, m, 1))
            /\ IF m = Sentinel
               THEN /\ thread' = "exited"
                    /\ wpc' = "loop_test"
                    /\ UNCHANGED <<is_processing, current, gotAfterStop>>
               ELSE /\ current' = m
                    /\ is_processing' = TRUE
                    /\ wpc' = "append"
                    /\ gotAfterStop' =
                          IF stopBegun THEN gotAfterStop \cup {m}
                          ELSE gotAfterStop
                    /\ UNCHANGED thread
    /\ UNCHANGED <<conversation_history, nextId, processedLog, nFinished,
                   clearedAt, lastFailed, stopBegun, pendingAtStop>>

\* _process_message: conversation_history.append(message), then the trim
WorkerAppend ==
    /\ UNCHANGED notConv
    /\ LifecycleSame
    /\ thread = "alive" /\ wpc = "append"
    /\ conversation_history' = TrimHistory(Append(conversation_history, current))
    /\ processedLog' = Append(processedLog, current)
    /\ wpc' = "pipeline"
    /\ UNCHANGED <<thread, message_queue, is_processing, current, nextId,
                   nFinished, clearedAt, lastFailed, stopBegun, pendingAtStop,
                   gotAfterStop>>

\* getattr(self.config, 'language', 'fr') with the default configuration
ConfigLanguage == "fr"

\* what the language processor does with a message: a response text, an
\* empty response (None or ''), or an exception
PipelineOutcomes == {"text", "empty", "raise"}

\* if response: self.event_bus.publish(Event(type=SPEECH_OUTPUT, data=...));
\* the response to message m is written as m
ResponseEventsAlways(m, o) ==
    << [type |-> "speech_output", text |-> m, language |-> ConfigLanguage] >>
ResponseEvents(m, o) ==
    IF o = "text"
    THEN << [type |-> "speech_output", text |-> m, language |-> ConfigLanguage] >>
    ELSE << >>

\* _process_message: the language processor and the publish of the
\* response, which run through or raise; _process_message returns
WorkerPipeline(o) ==
    /\ UNCHANGED notPipe
    /\ LifecycleSame
    /\ thread = "alive" /\ wpc = "pipeline"
    /\ lastFailed' = IF o = "raise" THEN current ELSE lastFailed
    /\ nFinished' = nFinished + 1
    /\ responded' = o
    /\ outEvents' = IF o = "raise" THEN << >> ELSE ResponseEvents(current, o)
    /\ wpc' = AfterPipeline(o = "raise")
    /\ UNCHANGED <<thread, message_queue, conversation_history, is_processing,
                   current, nextId, processedLog, clearedAt, stopBegun,
                   pendingAtStop, gotAfterStop>>

\* self.is_processing = False, and back to the loop test
WorkerClear ==
    /\ UNCHANGED notPipe
    /\ LifecycleSame
    /\ thread = "alive" /\ wpc = "clear"
    /\ is_processing' = FALSE
    /\ current' = 0
    /\ responded' = "none"
    /\ outEvents' = << >>
    /\ wpc' = "loop_test"
    /\ UNCHANGED <<thread, message_queue, conversation_history, nextId,
                   processedLog, nFinished, clearedAt, lastFailed, stopBegun,
                   pendingAtStop, gotAfterStop>>

InitSpecConv ==
    /\ InitBus
    /\ InitAssistant
    /\ InitConversation
    /\ InitModuleOf("conversation")

\* start() is called once on the instance, as Assistant.start() does, so that
\* the queue has one consumer; stop() and the handlers are called at any time.
NextConv ==
    \/ ~startCalled /\ CallStart
    \/ CallStop
    \/ ConvStartSuper
    \/ StartInitialize
    \/ StartSetRunning
    \/ StartSetEvent
    \/ StartUpdateStatus
    \/ StartExcept
    \/ ConvStartThread
    \/ ConvStopFlag
    \/ ConvStopJoin
    \/ StopTest
    \/ StopClearRunning
    \/ StopClearEvent
    \/ StopCallCleanup
    \/ StopFinally
    \/ StopUpdateStatus
    \/ CleanupBody
    \/ ConvStopReturn
    \/ \E d \in EventData : HandleVoiceCommand(d)
    \/ \E d \in EventData : HandleTextInput(d)
    \/ WorkerLoopTest
    \/ WorkerGet
    \/ \E o \in PipelineOutcomes : WorkerPipeline(o)
    \/ WorkerAppend
    \/ WorkerClear

SpecConv == InitSpecConv /\ [][NextConv]_vars

\* a step of the processing thread; the thread is scheduled again and again
\* and _process_message returns for every message
WorkerStep ==
    \/ WorkerLoopTest
    \/ WorkerGet
    \/ WorkerAppend
    \/ \E o \in PipelineOutcomes : WorkerPipeline(o)
    \/ WorkerClear

SpecConvFair == SpecConv /\ WF_vars(WorkerStep)

\* the module on which stop() is never called: start() once, the handlers
\* and the processing thread
NextConvRun ==
    \/ ~startCalled /\ CallStart
    \/ ConvStartSuper
    \/ StartInitialize
    \/ StartSetRunning
    \/ StartSetEvent
    \/ StartUpdateStatus
    \/ StartExcept
    \/ ConvStartThread
    \/ \E d \in EventData : HandleVoiceCommand(d)
    \/ \E d \in EventData : HandleTextInput(d)
    \/ WorkerLoopTest
    \/ WorkerGet
    \/ \E o \in PipelineOutcomes : WorkerPipeline(o)
    \/ WorkerAppend
    \/ WorkerClear

SpecConvRun == InitSpecConv /\ [][NextConvRun]_vars /\ WF_vars(WorkerStep)

(***************************************************************************)
(* Claims on the conversation worker                                       *)
(***************************************************************************)
\* C11: messages are processed in the order they were enqueued: the messages
\* appended to the history appear in enqueue order, and a message is
\* started only when every message started before it has been fully
\* processed.
WorkerProcessesInEnqueueOrder ==
    /\ [](\A i, j \in 1..Len(processedLog) :
             i < j => processedLog[i] < processedLog[j])
    /\ [][Len(processedLog') > Len(processedLog) =>
             nFinished = Len(processedLog)]_vars

\* the second message is in the pipeline, the first one done, while the
\* third and the fourth wait in the queue
SecondMessageInPipelineReached ==
    /\ wpc = "pipeline"
    /\ current = 2
    /\ processedLog = <<1, 2>>
    /\ nFinished = 1
    /\ message_queue = <<3, 4>>

\* the messages appended to the history since cleanup() last cleared it
SinceClear == SubSeq(processedLog, clearedAt + 1, Len(processedLog))

\* C12: the history never holds more than max_history entries, and it holds
\* the most recently processed messages, in processing order, the oldest
\* evicted first.
HistoryHoldsLastProcessed ==
    /\ Len(conversation_history) <= MaxHistory
    /\ LET n == IF Len(SinceClear) < MaxHistory THEN Len(SinceClear)
                ELSE MaxHistory
       IN  conversation_history =
              SubSeq(SinceClear, Len(SinceClear) - n + 1, Len(SinceClear))

\* max_history + 5 messages were processed and the history holds the last
\* max_history of them
FiveBeyondCapProcessedReached ==
    /\ clearedAt = 0
    /\ Len(processedLog) = MaxHistory + 5
    /\ nFinished = Len(processedLog)
    /\ Len(conversation_history) = MaxHistory
    /\ conversation_history[1] = processedLog[6]

\* C13: once the worker has exited after stop(), the messages that were
\* pending when stop() was called have either all been processed or none
\* of them has, whatever the interleaving.
StopProcessesNoneOrAllPending ==
    (stopBegun /\ thread = "exited") =>
        \/ gotAfterStop \cap pendingAtStop = {}
        \/ gotAfterStop \cap pendingAtStop = pendingAtStop

\* C15: a message whose pipeline raised leaves the worker alive at the
\* statement that clears is_processing; the flag is clear whenever the
\* worker is back at its loop test or its get, from where it takes the next
\* message.
PipelineFailureKeepsWorker ==
    /\ (lastFailed # 0 /\ current = lastFailed) =>
           (thread = "alive" /\ wpc = "clear")
    /\ wpc \in {"loop_test", "get"} => ~is_processing

\* a message was processed to the end after an earlier message's pipeline
\* had raised
ProcessedAfterFailureReached ==
    /\ lastFailed # 0
    /\ Len(processedLog) > 0
    /\ processedLog[Len(processedLog)] > lastFailed
    /\ nFinished = Len(processedLog)
    /\ wpc = "loop_test"
    /\ thread = "alive"

(***************************************************************************)
(* Assistant (core/assistant.py).  start() runs one statement per step.    *)
(* A module's start() or stop() is one step here, with the effect the      *)
(* lifecycle above gives it: BaseModule.start sets running on a successful *)
(* _initialize and raises otherwise; ConversationModule.stop returns;      *)
(* AudioModule.stop raises RecursionError the first time it runs and is a  *)
(* no-op afterwards; VisionModule is its own class with a bare running     *)
(* flag, no is_running() and an unbounded join in stop().                  *)
(***************************************************************************)
\* start_order / shutdown_order
StartOrder == <<"audio", "conversation", "vision">>
ShutdownOrderAsStarted == <<"audio", "conversation", "vision">>
ShutdownOrder == <<"vision", "conversation", "audio">>

\* hasattr(module, 'is_running'): VisionModule defines none
HasIsRunningNever(m) == FALSE
HasIsRunning(m) == m # "vision"

\* what module.start() can do: _initialize of the lifecycle modules returns
\* True or False; VisionModule.initialize returns or raises
ModuleStartOutcomes(m) ==
    IF m = "vision" THEN {"true", "raise"} ELSE InitializeOutcomes(m)

\* a failed module start: `raise` leaves the for loop for the finally clause
AfterStartFailureContinue == "start_next"
AfterStartFailure == "shutdown_enter"

\* a failed module stop: `except Exception` logs, the for loop goes on
AfterStopFailureAbort == "shutdown_return"
AfterStopFailure == "stop_next"

InStartup == apc \in {"start_call", "start_verify", "start_next"}
InHealthLoop == apc \in {"loop_test", "check", "sleep"}
InShutdown ==
    apc \in {"shutdown_enter", "stop_call", "vision_join", "stop_next",
             "shutdown_return"}

\* Assistant.start() is called
AssistantStart ==
    /\ UNCHANGED notAsst
    /\ UNCHANGED verified
    /\ apc = "idle"
    /\ apc' = "start_call"
    /\ ai' = 1
    /\ UNCHANGED <<arunning, shutdown_event, pending, outcome, mRunning,
                   mCleanupDone, vthread, startLog, stopLog, stopRaised,
                   shutdownCalls, enteredLoop, failedAt, intrInShutdown>>

\* module.start() for the module at the loop index
StartModule ==
    /\ UNCHANGED notHealth
    /\ UNCHANGED <<verified, errorLogged>>
    /\ apc = "start_call"
    /\ LET m == StartOrder[ai] IN
       /\ startLog' = Append(startLog, m)
       /\ \E o \in ModuleStartOutcomes(m) :
             IF m = "vision" /\ mRunning[m]
             THEN \* VisionModule.start: "if not self.running" is false
                  /\ apc' = "start_verify"
                  /\ UNCHANGED <<mRunning, vthread, pending, failedAt, mError>>
             ELSE
             \* BaseModule.start: update_status('running') clears the error
             \* field, update_status('error', ...) sets it
             /\ mError' = IF m = "vision" THEN mError
                          ELSE [mError EXCEPT ![m] = (o # "true")]
             /\ IF o = "true"
                THEN /\ mRunning' = [mRunning EXCEPT ![m] = TRUE]
                     /\ vthread' = IF m = "vision" THEN "alive" ELSE vthread
                     /\ apc' = "start_verify"
                     /\ UNCHANGED <<pending, failedAt>>
                ELSE \* BaseModule.start raises RuntimeError with running unset;
                     \* VisionModule.start set running before initialize raised
                     /\ mRunning' = [mRunning EXCEPT ![m] = (m = "vision")]
                     /\ pending' = IF m = "vision" THEN "Exception" ELSE "RuntimeError"
                     /\ failedAt' = m
                     /\ apc' = AfterStartFailure
                     /\ UNCHANGED vthread
    /\ UNCHANGED <<ai, arunning, shutdown_event, outcome, mCleanupDone,
                   stopLog, stopRaised, shutdownCalls, enteredLoop,
                   intrInShutdown>>

\* time.sleep(0.5); if hasattr(module, 'is_running') and not is_running(): raise
VerifyModule ==
    /\ UNCHANGED notAsst
    /\ apc = "start_verify"
    /\ LET m == StartOrder[ai] IN
       IF HasIsRunning(m) /\ ~mRunning[m]
       THEN /\ pending' = "RuntimeError"
            /\ failedAt' = m
            /\ apc' = AfterStartFailure
            /\ UNCHANGED verified
       ELSE /\ apc' = "start_next"
            /\ verified' = IF HasIsRunning(m) THEN verified \cup {m}
                           ELSE verified
            /\ UNCHANGED <<pending, failedAt>>
    /\ UNCHANGED <<ai, arunning, shutdown_event, outcome, mRunning,
                   mCleanupDone, vthread, startLog, stopLog, stopRaised,
                   shutdownCalls, enteredLoop, intrInShutdown>>

\* the for loop over start_order advances, or ends and the main loop begins
StartNext ==
    /\ UNCHANGED notAsst
    /\ UNCHANGED verified
    /\ apc = "start_next"
    /\ IF ai < Len(StartOrder)
       THEN /\ ai' = ai + 1
            /\ apc' = "start_call"
            /\ UNCHANGED enteredLoop
       ELSE /\ apc' = "loop_test"
            /\ enteredLoop' = TRUE
            /\ UNCHANGED ai
    /\ UNCHANGED <<arunning, shutdown_event, pending, outcome, mRunning,
                   mCleanupDone, vthread, startLog, stopLog, stopRaised,
                   shutdownCalls, failedAt, intrInShutdown>>

\* while self.running and not self._shutdown_event.is_set():
LoopTest ==
    /\ UNCHANGED notAsst
    /\ UNCHANGED verified
    /\ apc = "loop_test"
    /\ IF arunning /\ ~shutdown_event
       THEN apc' = "check" /\ ai' = 1
       ELSE apc' = "shutdown_enter" /\ UNCHANGED ai
    /\ UNCHANGED <<arunning, shutdown_event, pending, outcome, mRunning,
                   mCleanupDone, vthread, startLog, stopLog, stopRaised,
                   shutdownCalls, enteredLoop, failedAt, intrInShutdown>>

\* _check_modules: what makes it set _shutdown_event and break
HealthTriggerOnError(m) == HasIsRunning(m) /\ (~mRunning[m] \/ mError[m])
HealthTrigger(m) == HasIsRunning(m) /\ ~mRunning[m]

\* _check_modules: one turn of its loop over self.modules.items()
CheckModule ==
    /\ UNCHANGED notHealth
    /\ UNCHANGED <<verified, mError>>
    /\ apc = "check"
    /\ LET m == ModulesOrder[ai] IN
       IF HealthTrigger(m)
       THEN /\ shutdown_event' = TRUE
            /\ apc' = "sleep"
            /\ UNCHANGED <<ai, errorLogged>>
       ELSE /\ UNCHANGED shutdown_event
            \* status.get('error') of a module that has is_running: logged
            /\ errorLogged' = IF HasIsRunning(m) /\ mError[m]
                               THEN errorLogged \cup {m} ELSE errorLogged
            /\ IF ai < Len(ModulesOrder)
               THEN ai' = ai + 1 /\ UNCHANGED apc
               ELSE apc' = "sleep" /\ UNCHANGED ai
    /\ UNCHANGED <<arunning, pending, outcome, mRunning, mCleanupDone,
                   vthread, startLog, stopLog, stopRaised, shutdownCalls,
                   enteredLoop, failedAt, intrInShutdown>>

\* time.sleep(1)
Sleep ==
    /\ UNCHANGED notAsst
    /\ UNCHANGED verified
    /\ apc = "sleep"
    /\ apc' = "loop_test"
    /\ UNCHANGED <<ai, arunning, shutdown_event, pending, outcome, mRunning,
                   mCleanupDone, vthread, startLog, stopLog, stopRaised,
                   shutdownCalls, enteredLoop, failedAt, intrInShutdown>>

\* finally: self.shutdown() -- self.running = False
ShutdownEnter ==
    /\ UNCHANGED notAsst
    /\ UNCHANGED verified
    /\ apc = "shutdown_enter"
    /\ shutdownCalls' = shutdownCalls + 1
    /\ arunning' = FALSE
    /\ ai' = 1
    /\ apc' = "stop_call"
    /\ UNCHANGED <<shutdown_event, pending, outcome, mRunning, mCleanupDone,
                   vthread, startLog, stopLog, stopRaised, enteredLoop,
                   failedAt, intrInShutdown>>

\* module.stop() for the module at the loop index
StopModule ==
    /\ UNCHANGED notHealth
    /\ UNCHANGED <<verified, errorLogged>>
    /\ apc = "stop_call"
    /\ LET m == ShutdownOrder[ai] IN
       /\ stopLog' = Append(stopLog, m)
       /\ CASE m = "vision" ->
                 \* self.running = False; then the join
                 /\ mRunning' = [mRunning EXCEPT ![m] = FALSE]
                 /\ apc' = "vision_join"
                 /\ UNCHANGED <<mCleanupDone, stopRaised, mError>>
            [] m = "conversation" ->
                 /\ mRunning' = [mRunning EXCEPT ![m] = FALSE]
                 /\ mCleanupDone' = [mCleanupDone EXCEPT ![m] = TRUE]
                 \* BaseModule.stop, when it is not a no-op, ends with
                 \* update_status('stopped'), which clears the error field
                 /\ mError' = IF mCleanupDone[m] THEN mError
                              ELSE [mError EXCEPT ![m] = FALSE]
                 /\ apc' = "stop_next"
                 /\ UNCHANGED stopRaised
            [] OTHER ->
                 \* audio: cleanup() raises before update_status('stopped')
                 /\ UNCHANGED mError
                 /\ IF ~mCleanupDone[m]
                    THEN /\ mRunning' = [mRunning EXCEPT ![m] = FALSE]
                         /\ mCleanupDone' = [mCleanupDone EXCEPT ![m] = TRUE]
                         /\ stopRaised' = stopRaised \cup {m}
                         /\ apc' = AfterStopFailure
                    ELSE /\ apc' = "stop_next"
                         /\ UNCHANGED <<mRunning, mCleanupDone, stopRaised>>
    /\ UNCHANGED <<ai, arunning, shutdown_event, pending, outcome, vthread,
                   startLog, shutdownCalls, enteredLoop, failedAt,
                   intrInShutdown>>

\* VisionModule.stop: processing_thread.join() returns once the thread has
\* exited (or there is no thread); then cleanup() returns or raises
VisionJoin ==
    /\ UNCHANGED notAsst
    /\ UNCHANGED verified
    /\ apc = "vision_join"
    /\ vthread \in {"none", "exited"}
    /\ \E o \in {"return", "raise"} :
          IF o = "raise"
          THEN stopRaised' = stopRaised \cup {"vision"} /\ apc' = AfterStopFailure
          ELSE UNCHANGED stopRaised /\ apc' = "stop_next"
    /\ UNCHANGED <<ai, arunning, shutdown_event, pending, outcome, mRunning,
                   mCleanupDone, vthread, startLog, stopLog, shutdownCalls,
                   enteredLoop, failedAt, intrInShutdown>>

\* the for loop over shutdown_order advances or ends
StopNext ==
    /\ UNCHANGED notAsst
    /\ UNCHANGED verified
    /\ apc = "stop_next"
    /\ IF ai < Len(ShutdownOrder)
       THEN ai' = ai + 1 /\ apc' = "stop_call"
       ELSE apc' = "shutdown_return" /\ UNCHANGED ai
    /\ UNCHANGED <<arunning, shutdown_event, pending, outcome, mRunning,
                   mCleanupDone, vthread, startLog, stopLog, stopRaised,
                   shutdownCalls, enteredLoop, failedAt, intrInShutdown>>

\* shutdown() is over: start() returns, or re-raises what its try block raised
ShutdownReturn ==
    /\ UNCHANGED notAsst
    /\ UNCHANGED verified
    /\ apc = "shutdown_return"
    /\ apc' = "ended"
    /\ outcome' = IF pending # "none" THEN pending ELSE "returned"
    /\ UNCHANGED <<ai, arunning, shutdown_event, pending, mRunning,
                   mCleanupDone, vthread, startLog, stopLog, stopRaised,
                   shutdownCalls, enteredLoop, failedAt, intrInShutdown>>

\* KeyboardInterrupt during startup or the main loop: except KeyboardInterrupt
Interrupt ==
    /\ UNCHANGED notAsst
    /\ UNCHANGED verified
    /\ InStartup \/ InHealthLoop
    /\ pending' = "none"
    /\ apc' = "shutdown_enter"
    /\ UNCHANGED <<ai, arunning, shutdown_event, outcome, mRunning,
                   mCleanupDone, vthread, startLog, stopLog, stopRaised,
                   shutdownCalls, enteredLoop, failedAt, intrInShutdown>>

\* KeyboardInterrupt inside the finally clause: nothing catches it
InterruptShutdown ==
    /\ UNCHANGED notAsst
    /\ UNCHANGED verified
    /\ InShutdown
    /\ apc' = "ended"
    /\ outcome' = "KeyboardInterrupt"
    /\ intrInShutdown' = TRUE
    /\ UNCHANGED <<ai, arunning, shutdown_event, pending, mRunning,
                   mCleanupDone, vthread, startLog, stopLog, stopRaised,
                   shutdownCalls, enteredLoop, failedAt>>

\* stop() of a running lifecycle module called from outside the supervisor
ModuleStopped(m) ==
    /\ UNCHANGED notHealth
    /\ UNCHANGED <<verified, errorLogged>>
    /\ InStartup \/ InHealthLoop
    /\ mRunning[m]
    /\ mRunning' = [mRunning EXCEPT ![m] = FALSE]
    /\ mCleanupDone' = [mCleanupDone EXCEPT ![m] = TRUE]
    /\ mError' = IF m = "conversation" /\ ~mCleanupDone[m]
                 THEN [mError EXCEPT ![m] = FALSE] ELSE mError
    /\ UNCHANGED <<apc, ai, arunning, shutdown_event, pending, outcome,
                   vthread, startLog, stopLog, stopRaised, shutdownCalls,
                   enteredLoop, failedAt, intrInShutdown>>

\* start() called again, from outside the supervisor, on a running
\* lifecycle module, its _initialize() failing: update_status('error', ...)
\* with self.running left True
ModuleReportsError(m) ==
    /\ UNCHANGED notHealth
    /\ UNCHANGED <<asstVars, errorLogged>>
    /\ InStartup \/ InHealthLoop
    /\ mRunning[m]
    /\ ~mError[m]
    /\ mError' = [mError EXCEPT ![m] = TRUE]

\* VisionModule.process: 'q' pressed -> self.stop() on the processing thread:
\* running = False, then join() of the current thread raises and ends it
VisionQuit ==
    /\ UNCHANGED notAsst
    /\ UNCHANGED verified
    /\ vthread = "alive"
    /\ mRunning["vision"]
    /\ mRunning' = [mRunning EXCEPT !["vision"] = FALSE]
    /\ vthread' = "exited"
    /\ UNCHANGED <<apc, ai, arunning, shutdown_event, pending, outcome,
                   mCleanupDone, startLog, stopLog, stopRaised,
                   shutdownCalls, enteredLoop, failedAt, intrInShutdown>>

\* VisionModule.process_loop ends: running is False at the loop test, or
\* process() raised (event_bus.emit does not exist) with running still True
VisionThreadExit ==
    /\ UNCHANGED notAsst
    /\ UNCHANGED verified
    /\ vthread = "alive"
    /\ vthread' = "exited"
    /\ UNCHANGED <<apc, ai, arunning, shutdown_event, pending, outcome,
                   mRunning, mCleanupDone, startLog, stopLog, stopRaised,
                   shutdownCalls, enteredLoop, failedAt, intrInShutdown>>

\* the steps of the thread that runs Assistant.start()
SupervisorStep ==
    \/ AssistantStart
    \/ StartModule
    \/ VerifyModule
    \/ StartNext
    \/ LoopTest
    \/ CheckModule
    \/ Sleep
    \/ ShutdownEnter
    \/ StopModule
    \/ VisionJoin
    \/ StopNext
    \/ ShutdownReturn

InitSpecAssistant == InitBus /\ IdleModule /\ InitAssistant /\ InitConversation

NextAssistant ==
    \/ AssistantStart
    \/ StartModule
    \/ VerifyModule
    \/ StartNext
    \/ LoopTest
    \/ CheckModule
    \/ Sleep
    \/ ShutdownEnter
    \/ StopModule
    \/ VisionJoin
    \/ StopNext
    \/ ShutdownReturn
    \/ Interrupt
    \/ InterruptShutdown
    \/ \E m \in Modules \ {"vision"} : ModuleStopped(m)
    \/ \E m \in Modules \ {"vision"} : ModuleReportsError(m)
    \/ VisionQuit
    \/ VisionThreadExit

SpecAssistant == InitSpecAssistant /\ [][NextAssistant]_vars

\* the supervisor's thread keeps being scheduled
SpecAssistantFair == SpecAssistant /\ WF_vars(SupervisorStep)

(***************************************************************************)
(* Claims on the supervisor.  A KeyboardInterrupt that arrives inside the  *)
(* finally clause cuts shutdown() short; the claims below speak of the     *)
(* runs in which shutdown() is left to finish (~intrInShutdown).           *)
(***************************************************************************)
\* the modules before m in the start order, m included
StartedUpTo(m) ==
    CASE m = "audio" -> <<"audio">>
      [] m = "conversation" -> <<"audio", "conversation">>
      [] OTHER -> <<"audio", "conversation", "vision">>

\* C7: when a module fails to start (start() raises, or the module reports
\* not-running afterwards), no later module's start() is called, the health
\* loop is never entered and start() raises the failure; a failing
\* conversation module leaves audio started and vision never started.
StartupFailureAborts ==
    failedAt # "none" =>
        /\ startLog = StartedUpTo(failedAt)
        /\ ~enteredLoop
        /\ ~InStartup /\ ~InHealthLoop
        /\ (apc = "ended" /\ ~intrInShutdown) =>
               outcome \in {"RuntimeError", "Exception"}

\* start() ended by re-raising the conversation module's start failure
ConversationStartFailedReached ==
    /\ apc = "ended"
    /\ failedAt = "conversation"
    /\ outcome = "RuntimeError"
    /\ startLog = <<"audio", "conversation">>

\* C8: a stop() that raises during shutdown() does not keep stop() from
\* being called on the modules after it, and shutdown() does not raise:
\* start() ends as its try block left it.
ShutdownSurvivesStopFailure ==
    (apc = "ended" /\ ~intrInShutdown /\ stopRaised # {}) =>
        /\ \A m \in Modules : \E i \in 1..Len(stopLog) : stopLog[i] = m
        /\ outcome = IF failedAt # "none" THEN pending ELSE "returned"

\* vision's stop() raised, and conversation and audio were still stopped
VisionStopRaisedReached ==
    /\ apc = "ended"
    /\ ~intrInShutdown
    /\ "vision" \in stopRaised
    /\ Len(stopLog) = 3
    /\ outcome = "returned"

\* C9: however start() ends (startup failure, the health loop exiting, a
\* KeyboardInterrupt during startup or the loop), shutdown() has run exactly
\* once by then and has called stop() on vision, conversation, audio in
\* that order.
StartEndsWithOneOrderedShutdown ==
    (apc = "ended" /\ ~intrInShutdown) =>
        /\ shutdownCalls = 1
        /\ stopLog = <<"vision", "conversation", "audio">>

\* start() ended after the health loop exited on its shutdown request
LoopExitShutdownReached ==
    /\ apc = "ended"
    /\ ~intrInShutdown
    /\ enteredLoop
    /\ shutdown_event
    /\ outcome = "returned"

\* C10: while the supervisor is in its health loop, a supervised module
\* (audio, conversation or vision) that is not running leads to shutdown()
\* being run (unless a KeyboardInterrupt cuts the finally clause short).
StoppedModuleLeadsToShutdown ==
    (InHealthLoop /\ \E m \in Modules : ~mRunning[m])
        ~> (shutdownCalls > 0 \/ intrInShutdown)

\* C14: once shutdown() has been entered, start() ends, even when a
\* module's background thread never exits: no join waits without a bound.
ShutdownTerminatesDespiteThreads ==
    (shutdownCalls > 0) ~> (apc = "ended")

\* C20: start() is called on the modules in the order audio, conversation,
\* vision, and on a module only when every earlier module's start() has
\* returned without raising and its is_running() check has passed.
StartsInOrderAfterVerification ==
    /\ \E m \in Modules : startLog = <<>> \/ startLog = StartedUpTo(m)
    /\ \A i \in 1..Len(startLog) : \A j \in 1..(i - 1) :
          /\ startLog[j] \in verified
          /\ failedAt # startLog[j]

\* vision's start() has just been called, audio and conversation verified
VisionStartedAfterVerifiedReached ==
    /\ startLog = <<"audio", "conversation", "vision">>
    /\ verified = {"audio", "conversation"}
    /\ apc = "start_verify"
    /\ failedAt = "none"

(***************************************************************************)
(* Assistant.start() called again on an instance whose start() has ended. *)
(***************************************************************************)
\* module start() calls and shutdown() calls after which the model stops
\* calling start() again on the instance
MaxStartLog == 3
MaxShutdowns == 1

\* start() has no test of an earlier shutdown(): its try block begins again
\* with the for loop over start_order; self.running and _shutdown_event keep
\* the values shutdown() and the health check left
AssistantRestart ==
    /\ UNCHANGED notAsst
    /\ UNCHANGED verified
    /\ apc = "ended"
    /\ Len(startLog) <= MaxStartLog
    /\ shutdownCalls <= MaxShutdowns
    /\ apc' = "start_call"
    /\ ai' = 1
    /\ pending' = "none"
    /\ outcome' = "none"
    /\ UNCHANGED <<arunning, shutdown_event, mRunning, mCleanupDone, vthread,
                   startLog, stopLog, stopRaised, shutdownCalls, enteredLoop,
                   failedAt, intrInShutdown>>

NextAssistantRestart ==
    \/ AssistantStart
    \/ AssistantRestart
    \/ StartModule
    \/ VerifyModule
    \/ StartNext
    \/ LoopTest
    \/ CheckModule
    \/ Sleep
    \/ ShutdownEnter
    \/ StopModule
    \/ VisionJoin
    \/ StopNext
    \/ ShutdownReturn
    \/ Interrupt
    \/ InterruptShutdown
    \/ \E m \in Modules \ {"vision"} : ModuleStopped(m)
    \/ VisionQuit
    \/ VisionThreadExit

SpecAssistantRestart == InitSpecAssistant /\ [][NextAssistantRestart]_vars

\* shutdown() has called stop() on every module of shutdown_order and no
\* KeyboardInterrupt cut it short
ShutdownHasRun ==
    /\ shutdownCalls > 0
    /\ Len(stopLog) >= Len(ShutdownOrder)
    /\ ~intrInShutdown

\* C21: once shutdown() has run on an Assistant instance, no module's
\* start() is called any more, whatever is called on the instance later.
NoModuleStartAfterShutdown ==
    [][ShutdownHasRun => startLog' = startLog]_vars

(***************************************************************************)
(* The enqueue callbacks of the conversation module.                       *)
(***************************************************************************)
\* C22: handle_voice_command and handle_text_input never raise to the bus;
\* the messages enqueued so far are exactly one for each event that carried
\* a non-empty text in the handler's field, and none for any other event
\* (field missing, field empty, data not a mapping).
EnqueueCallbacksAreSafe ==
    /\ handlerResult # "raised"
    /\ nextId = wellFormedSeen + 1

\* two events carrying their text were handled and the queue holds the
\* two messages, in order
TwoWellFormedEnqueuedReached ==
    /\ handlerResult = "returned"
    /\ wellFormedSeen = 2
    /\ message_queue = <<1, 2>>

\* a handler was called and returned, and nothing was ever enqueued: the
\* event lacked the field, had it empty, or its data was not a mapping
MalformedDroppedReached ==
    /\ handlerResult = "returned"
    /\ wellFormedSeen = 0
    /\ nextId = 1
    /\ message_queue = << >>

(***************************************************************************)
(* The health check and the shutdown request.                              *)
(***************************************************************************)
\* C23: a health check in which every module reports running never sets
\* the shutdown request, whatever the error fields of the statuses are; the
\* request is set only by a health check turn on a module that has
\* is_running and reports not running.
OnlyStoppedModuleRequestsShutdown ==
    /\ [][(apc = "check" /\ \A m \in Modules : HasIsRunning(m) => mRunning[m])
             => shutdown_event' = shutdown_event]_vars
    /\ [][(shutdown_event' /\ ~shutdown_event)
             => (/\ apc = "check"
                 /\ HasIsRunning(ModulesOrder[ai])
                 /\ ~mRunning[ModulesOrder[ai]])]_vars

\* a health check went over every module, logged the error of the audio
\* module's status, and the shutdown request is not set
ErrorLoggedWithoutShutdownReached ==
    /\ apc = "sleep"
    /\ ai = Len(ModulesOrder)
    /\ "audio" \in errorLogged
    /\ mError["audio"]
    /\ \A m \in Modules : mRunning[m]
    /\ ~shutdown_event

(***************************************************************************)
(* Events of a type the bus does not know.                                 *)
(***************************************************************************)
\* EventTypes.ALL_TYPES
AllTypes == {"voice_command", "text_input", "speech_output", "system_status",
             "vision_update", "error"}

\* a type string that is none of them
UnknownTypes == {"custom_event"}

\* the bus called from one thread, with events of known and unknown types
NextBusAnyType ==
    \/ \E t \in EventTypeSet, cb \in Callbacks : pubpc = "idle" /\ Subscribe(t, cb)
    \/ \E t \in EventTypeSet, cb \in Callbacks : pubpc = "idle" /\ Unsubscribe(t, cb)
    \/ pubpc = "idle" /\ ClearAllSubscribers
    \/ \E t \in EventTypeSet \cup UnknownTypes : PublishBegin(t)
    \/ \E raised \in BOOLEAN : PublishStep(raised)
    \/ PublishReturn
    \/ PublishAck

SpecBusAnyType == InitSpecBus /\ [][NextBusAnyType]_vars

\* C24: publish of an event whose type is not one of the known event types
\* does not return normally: only events of a known type are accepted.
UnknownTypeIsRejected ==
    pubpc = "returned" => pubType \in AllTypes

\* C25: for every event type, publish with no subscriber registered for
\* that type returns without error, invokes no callback, and leaves the
\* subscriber count of every type and the total count as they were.
PublishWithoutSubscribersIsInert ==
    /\ [](atStart = <<>> => (pubpc # "raised" /\ called = <<>>))
    /\ [][(/\ pubpc \in {"idle", "dispatching"}
           /\ pubpc' \in {"dispatching", "returned", "raised"}
           /\ pubpc' # pubpc
           /\ atStart' = <<>>)
          => (/\ \A t \in AllTypes \cup UnknownTypes :
                    GetSubscriberCount(t)' = GetSubscriberCount(t)
              /\ GetSubscriberCountAll' = GetSubscriberCountAll)]_vars

\* a publish of a type the bus had never seen has returned while another
\* type holds registrations
PublishOfUnseenTypeReturned ==
    /\ pubpc = "returned"
    /\ pubType = "custom_event"
    /\ atStart = <<>>
    /\ called = <<>>
    /\ GetSubscriberCount("voice_command") = 2
    /\ GetSubscriberCount("custom_event") = 0
    /\ GetSubscriberCountAll = 2

WorkerPublishesOneResponse ==
    /\ wpc = "clear" =>
          /\ responded \in PipelineOutcomes
          /\ responded = "text" =>
                outEvents = << [type |-> "speech_output", text |-> current,
                                language |-> "fr"] >>
          /\ responded # "text" => outEvents = << >>
    /\ outEvents # << >> =>
          /\ processedLog # << >>
          /\ processedLog[Len(processedLog)] = current
          /\ \A i \in 1..Len(outEvents) : outEvents[i].text = current

\* the second message got a response; the one before it had raised
ResponsePublishedReached ==
    /\ wpc = "clear"
    /\ current = 2
    /\ responded = "text"
    /\ Len(outEvents) = 1
    /\ lastFailed = 1

\* a message got an empty response and nothing was published
EmptyResponseReached ==
    /\ wpc = "clear"
    /\ responded = "empty"
    /\ outEvents = << >>

(***************************************************************************)
(* stop() called again.                                                    *)
(***************************************************************************)
\* C27: while a stop() call runs on a module on which an earlier stop() has
\* completed, no cleanup is invoked and the status, the running flag, the
\* readiness condition and the contents of the message queue stay as
\* they are.
SecondStopIsNoOp ==
    [][(stopCompleted /\ lastCall = "stop" /\ stack # << >>)
         => UNCHANGED <<cleanupCalls, status, running, initialized,
                        message_queue>>]_vars

(***************************************************************************)
(* wait_until_ready.                                                       *)
(***************************************************************************)
\* C28: wait_until_ready, returning while no start() or stop() call is in
\* progress, returns true only when no stop() has been called since the
\* last start(), false when start() was never called, and true when the
\* last call made on the module is a start() that succeeded.
WaitReturnsReadiness ==
    (waitpc = "returned" /\ waitSaw.done) =>
        /\ waitResult = "True" => waitSaw.call = "start"
        /\ (waitSaw.call = "start" /\ waitSaw.result = "True")
              => waitResult = "True"

(***************************************************************************)
(* update_status and get_status, one dict key at a time.                   *)
(* A status value is written as the number of the update_status call that  *)
(* stored it; the dict built by __init__ holds the values of update 0.     *)
(***************************************************************************)
\* update_status calls the model follows
MaxUpdates == 3

\* the threads that call update_status (start() and stop() callers)
Updaters == {"u1", "u2"}

\* the keys of self._status in the order dict.update and dict.copy walk them
StatusKeys == <<"state", "last_update", "error">>
AfterKey(k) ==
    CASE k = "state" -> "last_update"
      [] k = "last_update" -> "error"
      [] k = "error" -> "release"

\* "with self._lock:" is entered only while no thread holds the lock
LockFreeAlways == TRUE
LockFree == lockHolder = "free"

\* self._status.copy() is a new dict object, not self._status
CopyShares == FALSE

\* the value a caller stores into the dict get_status returned to it
CallerValue == MaxUpdates + 1

\* update_status: with self._lock
UpdateAcquire(t) ==
    /\ UNCHANGED notStat
    /\ upc[t] = "idle"
    /\ nUpdates < MaxUpdates
    /\ LockFree
    /\ lockHolder' = t
    /\ nUpdates' = nUpdates + 1
    /\ updating' = [updating EXCEPT ![t] = nUpdates + 1]
    /\ upc' = [upc EXCEPT ![t] = StatusKeys[1]]
    /\ UNCHANGED <<statusDict, rpc, snapshot, snapshotChanged>>

\* self._status.update({...}): one key is stored
UpdateWrite(t) ==
    /\ UNCHANGED notStat
    /\ upc[t] \in {"state", "last_update", "error"}
    /\ statusDict' = [statusDict EXCEPT ![upc[t]] = updating[t]]
    /\ upc' = [upc EXCEPT ![t] = AfterKey(upc[t])]
    /\ UNCHANGED <<lockHolder, updating, nUpdates, rpc, snapshot,
                   snapshotChanged>>

\* the with block of update_status ends
UpdateRelease(t) ==
    /\ UNCHANGED notStat
    /\ upc[t] = "release"
    /\ lockHolder' = "free"
    /\ upc' = [upc EXCEPT ![t] = "idle"]
    /\ UNCHANGED <<statusDict, updating, nUpdates, rpc, snapshot,
                   snapshotChanged>>

\* get_status: with self._lock
GetAcquire ==
    /\ UNCHANGED notStat
    /\ rpc \in {"idle", "returned"}
    /\ LockFree
    /\ lockHolder' = "reader"
    /\ rpc' = StatusKeys[1]
    /\ snapshotChanged' = FALSE
    /\ UNCHANGED <<statusDict, upc, updating, nUpdates, snapshot>>

\* self._status.copy(): one key is copied
GetCopy ==
    /\ UNCHANGED notStat
    /\ rpc \in {"state", "last_update", "error"}
    /\ snapshot' = [snapshot EXCEPT ![rpc] = statusDict[rpc]]
    /\ rpc' = AfterKey(rpc)
    /\ UNCHANGED <<lockHolder, statusDict, upc, updating, nUpdates,
                   snapshotChanged>>

\* the with block of get_status ends, the copy is returned
GetRelease ==
    /\ UNCHANGED notStat
    /\ rpc = "release"
    /\ lockHolder' = "free"
    /\ rpc' = "returned"
    /\ UNCHANGED <<statusDict, upc, updating, nUpdates, snapshot,
                   snapshotChanged>>

\* the caller stores a value under a key of the dict it got
ChangeSnapshot(k) ==
    /\ UNCHANGED notStat
    /\ rpc = "returned"
    /\ ~snapshotChanged
    /\ snapshot' = [snapshot EXCEPT ![k] = CallerValue]
    /\ statusDict' = IF CopyShares THEN [statusDict EXCEPT ![k] = CallerValue]
                     ELSE statusDict
    /\ snapshotChanged' = TRUE
    /\ UNCHANGED <<lockHolder, upc, updating, nUpdates, rpc>>

NextStatus ==
    \/ \E t \in Updaters : UpdateAcquire(t)
    \/ \E t \in Updaters : UpdateWrite(t)
    \/ \E t \in Updaters : UpdateRelease(t)
    \/ GetAcquire
    \/ GetCopy
    \/ GetRelease
    \/ \E k \in {"state", "last_update", "error"} : ChangeSnapshot(k)

SpecStatus == InitSpecBus /\ [][NextStatus]_vars

\* C29: under concurrent update_status and get_status calls, the state,
\* last_update and error of every snapshot get_status returns come from one
\* single update_status call, and a change made to a returned snapshot does
\* not change the module's status.
SnapshotIsOneUpdate ==
    /\ (rpc = "returned" /\ ~snapshotChanged) =>
          /\ snapshot["state"] = snapshot["last_update"]
          /\ snapshot["last_update"] = snapshot["error"]
    /\ \A k \in {"state", "last_update", "error"} :
          statusDict[k] # CallerValue

\* a snapshot of update 1 was returned and then changed by its caller,
\* while update 2 is half written under the lock
SnapshotDuringUpdateReached ==
    /\ rpc = "returned"
    /\ snapshotChanged
    /\ snapshot["state"] = CallerValue
    /\ snapshot["last_update"] = 1 /\ snapshot["error"] = 1
    /\ statusDict["state"] = 2 /\ statusDict["error"] = 1
    /\ lockHolder \in Updaters

(***************************************************************************)
(* clear_all_subscribers.                                                  *)
(***************************************************************************)
\* C31: after clear_all_subscribers(), and until a new subscribe is made,
\* the subscriber count is 0 for every type and in total, and a publish
\* of any type that starts in that time invokes no callback.
ClearLeavesNoSubscriber ==
    cleared =>
        /\ \A t \in AllTypes \cup UnknownTypes : GetSubscriberCount(t) = 0
        /\ GetSubscriberCountAll = 0
        /\ pubpc # "idle" => (atStart = << >> /\ called = << >>)
        /\ pubpc # "raised"

\* a publish made after clear_all_subscribers() has returned, a failed
\* unsubscribe having come in between
PublishAfterClearReached ==
    /\ cleared
    /\ pubpc = "returned"
    /\ pubType = "voice_command"
    /\ called = << >>
    /\ callResult = "ValueError"

(***************************************************************************)
(* The history and its two threads.                                        *)
(***************************************************************************)
\* the stopping thread is inside ConversationModule.cleanup(): called, and
\* the queue and the history not yet cleared
InCleanup == stack # << >> /\ Top = "ccleanup_body"

\* C32: the conversation history is never touched by two threads at once:
\* the processing thread appends to (and trims) the history only while the
\* stopping thread is not inside cleanup(), also when the join timed out.
HistoryHasOneThread ==
    [][(wpc = "append" /\ wpc' = "pipeline") => ~InCleanup]_vars

(***************************************************************************)
(* The end of the processing thread.                                       *)
(***************************************************************************)
\* stop() has cleared self.running under a live processing thread
StoppedWithWorker == thread = "alive" /\ ~running

\* C33: once stop() has been called the processing thread eventually
\* exits, given that _process_message returns: from the loop test it leaves
\* at once, so it finishes at most the one message it holds or dequeues
\* next, and it leaves in the very step in which it dequeues the sentinel.
WorkerExitsAfterStop ==
    /\ StoppedWithWorker ~> (thread = "exited")
    /\ [][(StoppedWithWorker /\ wpc = "loop_test"
             /\ (wpc' # wpc \/ thread' # thread))
            => thread' = "exited"]_vars
    /\ [][(thread = "alive" /\ wpc = "get" /\ message_queue # << >>
             /\ Head(message_queue) = Sentinel
             /\ message_queue' = Tail(message_queue) /\ wpc' # wpc)
            => thread' = "exited"]_vars

\* the processing thread has exited at the loop test after one more
\* message, the sentinel still being in the queue
WorkerExitedAfterOneMoreReached ==
    /\ thread = "exited"
    /\ stopBegun
    /\ Cardinality(gotAfterStop) = 1
    /\ Sentinel \in {message_queue[i] : i \in 1..Len(message_queue)}

(***************************************************************************)
(* The stopped conversation module and the bus.                            *)
(***************************************************************************)
\* the last call made on the module was stop(), and it has returned
StopReturned == stack = << >> /\ lastCall = "stop"

\* C34: after ConversationModule.stop() has completed the module's handlers
\* are no longer registered on the bus, so that no voice_command or
\* text_input event published afterwards puts a message on its queue.
StoppedModuleHearsNothing == StopReturned => ~handlersSubscribed

(***************************************************************************)
(* Shutdown after an aborted startup.                                      *)
(***************************************************************************)
\* the modules whose start() Assistant.start() has called
StartCalledOn == {startLog[i] : i \in 1..Len(startLog)}

\* C35: a module's cleanup() is invoked only if its start() was called
\* before: the shutdown that follows an aborted startup leaves the modules
\* that were never started alone.
CleanupOnlyAfterStart ==
    \A m \in DOMAIN mCleanupDone : mCleanupDone[m] => m \in StartCalledOn

(***************************************************************************)
(* is_running() against get_status().                                      *)
(***************************************************************************)
\* C36: in every state another thread can observe, is_running() being true
\* implies that get_status() reports the state running, and get_status()
\* reporting the state stopped implies that is_running() is false.
RunningAgreesWithStatus ==
    /\ IsRunning => status.state = "running"
    /\ status.state = "stopped" => ~IsRunning

(***************************************************************************)
(* AudioModule.speak under concurrent callers.                             *)
(***************************************************************************)
\* Bound: the speak() calls made in a run
MaxSpeaks == 3

\* the threads that call speak(): the bus delivering speech_output events
\* and direct callers
Speakers == {"s1", "s2"}

\* if self.is_speaking:  -- the test on entry, on text number nSpeaks + 1
SpeakTest(t) ==
    /\ UNCHANGED notSpeak
    /\ spc[t] = "idle"
    /\ nSpeaks < MaxSpeaks
    /\ nSpeaks' = nSpeaks + 1
    /\ stext' = [stext EXCEPT ![t] = nSpeaks + 1]
    /\ spc' = [spc EXCEPT ![t] = IF is_speaking THEN "put" ELSE "set"]
    /\ UNCHANGED <<is_speaking, audio_queue, spoken>>

\* self.audio_queue.put(text); return
SpeakPut(t) ==
    /\ UNCHANGED notSpeak
    /\ spc[t] = "put"
    /\ audio_queue' = Append(audio_queue, stext[t])
    /\ spc' = [spc EXCEPT ![t] = "idle"]
    /\ stext' = [stext EXCEPT ![t] = 0]
    /\ UNCHANGED <<is_speaking, spoken, nSpeaks>>

\* self.is_speaking = True; self.current_text = text
SpeakSet(t) ==
    /\ UNCHANGED notSpeak
    /\ spc[t] = "set"
    /\ is_speaking' = TRUE
    /\ spc' = [spc EXCEPT ![t] = "tts"]
    /\ UNCHANGED <<audio_queue, stext, spoken, nSpeaks>>

\* self.tts_engine.speak(...) is entered with the text the thread holds
SpeakEngineBegin(t) ==
    /\ UNCHANGED notSpeak
    /\ spc[t] = "tts"
    /\ spoken' = Append(spoken, stext[t])
    /\ spc' = [spc EXCEPT ![t] = "speaking"]
    /\ UNCHANGED <<is_speaking, audio_queue, stext, nSpeaks>>

\* self.tts_engine.speak(...) returns
SpeakEngineEnd(t) ==
    /\ UNCHANGED notSpeak
    /\ spc[t] = "speaking"
    /\ spc' = [spc EXCEPT ![t] = "loop"]
    /\ stext' = [stext EXCEPT ![t] = 0]
    /\ UNCHANGED <<is_speaking, audio_queue, spoken, nSpeaks>>

\* while not self.audio_queue.empty(): next_text = self.audio_queue.get()
SpeakLoop(t) ==
    /\ UNCHANGED notSpeak
    /\ spc[t] = "loop"
    /\ IF audio_queue = << >>
       THEN /\ spc' = [spc EXCEPT ![t] = "finally"]
            /\ UNCHANGED <<audio_queue, stext>>
       ELSE /\ stext' = [stext EXCEPT ![t] = Head(audio_queue)]
            /\ audio_queue' = Tail(audio_queue)
            /\ spc' = [spc EXCEPT ![t] = "tts"]
    /\ UNCHANGED <<is_speaking, spoken, nSpeaks>>

\* finally: self.is_speaking = False; self.current_text = None
SpeakFinally(t) ==
    /\ UNCHANGED notSpeak
    /\ spc[t] = "finally"
    /\ is_speaking' = FALSE
    /\ spc' = [spc EXCEPT ![t] = "idle"]
    /\ UNCHANGED <<audio_queue, stext, spoken, nSpeaks>>

NextSpeak ==
    \/ \E t \in Speakers : SpeakTest(t)
    \/ \E t \in Speakers : SpeakPut(t)
    \/ \E t \in Speakers : SpeakSet(t)
    \/ \E t \in Speakers : SpeakEngineBegin(t)
    \/ \E t \in Speakers : SpeakEngineEnd(t)
    \/ \E t \in Speakers : SpeakLoop(t)
    \/ \E t \in Speakers : SpeakFinally(t)

SpecSpeak == InitSpecBus /\ [][NextSpeak]_vars

\* every speak() call made has returned
AllSpeakReturned == \A t \in Speakers : spc[t] = "idle"

\* C37: under any interleaving of speak() calls from different threads at
\* most one thread is inside the TTS engine at a time, no text is handed
\* to the engine twice, and once all speak() calls have returned every
\* text was handed over exactly once and the audio queue is empty.
SpeakIsSerialised ==
    /\ Cardinality({t \in Speakers : spc[t] = "speaking"}) <= 1
    /\ \A x \in 1..MaxSpeaks : Occurrences(spoken, x) <= 1
    /\ AllSpeakReturned =>
          /\ audio_queue = << >>
          /\ \A x \in 1..nSpeaks : Occurrences(spoken, x) = 1

\* the same without the first part: a text is left in the queue
SpeakLeavesNoText == AllSpeakReturned => audio_queue = << >>

(***************************************************************************)
(* Every enqueued message is processed.                                    *)
(***************************************************************************)
\* message m waits in the queue
InQueue(m) == \E i \in 1..Len(message_queue) : message_queue[i] = m

\* _process_message was run on m and has returned
Processed(m) ==
    /\ \E i \in 1..Len(processedLog) : processedLog[i] = m
    /\ current # m

\* C38: when stop() is never called on the started module and
\* _process_message returns for every message, every message a handler put
\* on the queue is eventually dequeued and processed by the processing
\* thread, the thread being scheduled fairly.
EnqueuedIsProcessed ==
    \A m \in 1..MaxMsgs : (thread = "alive" /\ InQueue(m)) ~> Processed(m)

\* the last message was processed, the pipeline having failed on the one
\* before it
LastMessageProcessedReached ==
    /\ thread = "alive"
    /\ Processed(MaxMsgs)
    /\ lastFailed = MaxMsgs - 1

(***************************************************************************)
(* What subscribe and unsubscribe change.                                  *)
(***************************************************************************)
\* the lists of every type but t are what they were
OtherTypesSame(t) ==
    \A u \in (DOMAIN subscribers \cup DOMAIN subscribers') \ {t} :
        /\ u \in DOMAIN subscribers /\ u \in DOMAIN subscribers'
        /\ subscribers'[u] = subscribers[u]

\* The registry calls of one thread while a publisher thread is held up
\* inside publish: the publisher took up the list (atStart keeps what the
\* list was then) and makes its next loop turn only when the list is empty.
NextBusRegistry ==
    \/ \E t \in EventTypeSet, cb \in ConcCallbacks : Subscribe(t, cb)
    \/ \E t \in EventTypeSet, cb \in ConcCallbacks : Unsubscribe(t, cb)
    \/ \E t \in EventTypeSet : PublishBegin(t)
    \/ PublishReturn
    \/ PublishAck

SpecBusRegistry == InitSpecBus /\ [][NextBusRegistry]_vars

\* list new is list old without its item at position i
WithoutItem(old, new, i) ==
    /\ Len(new) = Len(old) - 1
    /\ \A j \in 1..Len(new) : new[j] = IF j < i THEN old[j] ELSE old[j + 1]

\* C39: subscribe(T, cb) and unsubscribe(T, cb) change only the list of
\* type T.  subscribe leaves the registrations of T in place and adds one
\* registration of cb at the end; unsubscribe of a registered callback
\* removes its earliest registration and nothing else, the others keeping
\* their order.
SubscribeChangesOneList ==
    [][\A t \in EventTypeSet, cb \in ConcCallbacks :
          /\ Subscribe(t, cb) =>
                /\ OtherTypesSame(t)
                /\ subscribers'[t] = ListOf(subscribers, t) \o <<cb>>
          /\ Unsubscribe(t, cb) =>
                /\ OtherTypesSame(t)
                /\ \A i \in 1..Len(ListOf(subscribers, t)) :
                      (/\ subscribers[t][i] = cb
                       /\ \A j \in 1..(i - 1) : subscribers[t][j] # cb)
                      => WithoutItem(subscribers[t], subscribers'[t], i)]_vars

\* since the publisher took up the list cb1, cb2, cb1 the earliest
\* registration of cb1 was removed
EarliestRemovedReached ==
    /\ pubpc = "dispatching"
    /\ atStart = <<"cb1", "cb2", "cb1">>
    /\ ListOf(subscribers, pubType) = <<"cb2", "cb1">>
    /\ ListOf(subscribers, "speech_output") = << >>
    /\ pubType = "voice_command"

====
